---- MODULE Spec2Model ----
(***************************************************************************)
(* Smart-buyer agent runtime: the control plane (tool lookup, policy       *)
(* allow, quota check-and-increment, parameter sanitation, handler call,   *)
(* output validation), the planner's plan post-processing and the flow's   *)
(* node loop with its token-budget and max-steps guards.                   *)
(***************************************************************************)
EXTENDS Integers, Sequences, FiniteSets, TLC

VARIABLES
    store,        \* PolicyEngine.store: global policy, org policies, skills
    registry,     \* ToolRegistry._tools: name -> ToolSpec
    usage,        \* InMemoryUsageTracker._data: (org, user, day) -> UsageSnapshot
    day,          \* what date.today() returns
    inflight,     \* ControlPlane.execute coroutines suspended at the handler await
    ncalls,       \* number of execute calls started so far
    last_result,  \* outcome of the execute call that ended last
    passed,       \* history: calls that got past validate_quota, per (key, tool)
    pl_in,        \* Planner: config, profile, tool registry and the completion's output
    pl_out,       \* Planner.plan's outcome: the PlanModel returned, or the exception
    state,        \* AgentState handed to SmartBuyerFlow.run
    flow,         \* SmartBuyerFlow: nodes, max steps, the plan its planner gives, position
    orch,         \* OrchestratorService.run_smart_buyer: its arguments, position, response
    pc_tool,      \* PriceCompareTool: breaker fields, the clock, the calls in flight
    retry,        \* one ScraperTool._fetch_with_retry or AgentRunner._run_with_retry call
    cache,        \* ScraperTool with its InMemoryScraperCache: store, clock, requests
    gate,         \* AgentRunner: the admission semaphore and the runs
    ctx_store,    \* JsonFileContextStore: the session's file, the lock, the operations
    calc,         \* one call of a pure function: its input and its result
    fusion,       \* one PriceCompareEngine.compare call: the fan-out and its result
    toolreg       \* one tool registry of one of the three registry classes

cp_vars == <<store, registry, usage, day, inflight, ncalls, last_result, passed>>
pl_vars == <<pl_in, pl_out>>
fl_vars == <<state, flow>>
or_vars == <<orch>>
tl_vars == <<pc_tool, retry>>
ex_vars == <<cache, gate, ctx_store, calc, fusion, toolreg>>
non_cp_vars == <<pl_vars, fl_vars, or_vars, tl_vars, ex_vars>>
non_pl_vars == <<cp_vars, fl_vars, or_vars, tl_vars, ex_vars>>
non_fl_vars == <<cp_vars, pl_vars, or_vars, tl_vars, ex_vars>>
non_tl_vars == <<cp_vars, pl_vars, fl_vars, or_vars, ex_vars>>
non_ex_vars == <<cp_vars, pl_vars, fl_vars, or_vars, tl_vars>>
vars == <<cp_vars, pl_vars, fl_vars, or_vars, tl_vars, ex_vars>>

\* ------------------------------------------------------------------ bounds
MaxCalls == 3      \* execute calls per behaviour
MaxInFlight == 2   \* coroutines suspended at the same time
MaxDay == 1        \* days the clock can advance
MaxPlanLen == 3    \* steps of a completion's plan, before padding
MaxFlowPlan == 3   \* steps of the plan a flow is built from, before its finalize step
FlowMaxSteps == 2  \* SmartBuyerFlow.default_max_steps used besides the orchestrator's 8
TokenBudget == 2   \* AgentState.budget_token used in place of 16000
DailyCap == 2      \* QuotaLimits.daily_calls used in place of 5000
ToolCap == 1       \* QuotaLimits.per_tool_daily["price_compare"] used in place of 2000

\* ------------------------------------------------------------------ values
NoneVal == "None"
NoLimit == -1      \* Optional[int] = None in QuotaLimits

Get(f, k, d) == IF k \in DOMAIN f THEN f[k] ELSE d
EmptyMap == <<>>

\* ------------------------------------------------------------------ policy store
\* QuotaLimits(): no caps.
NoQuotas == [daily_calls |-> NoLimit, per_tool_daily |-> EmptyMap, daily_llm_tokens |-> NoLimit]

\* OrgPolicy(org_id=...): every set empty, no roles, no quotas.
EmptyOrgPolicy ==
    [enabled_skills |-> {}, allowed_tools |-> {}, blocked_tools |-> {},
     roles |-> EmptyMap, quotas |-> NoQuotas]

RolePolicy(allowed, blocked, skills) ==
    [allowed_tools |-> allowed, blocked_tools |-> blocked, allowed_skills |-> skills]

\* The tools bootstrap registers, each with an input and an output schema.
BootstrapRegistry ==
    [t \in {"price_compare", "decision_score", "scraper_fetch", "web_search"} |->
        [input_schema |-> TRUE, output_schema |-> TRUE,
         pass_context |-> t \in {"scraper_fetch", "web_search"}]]

BootstrapSkills ==
    [s \in {"smart_buyer_basic"} |->
        {"price_compare", "decision_score", "scraper_fetch", "web_search"}]

\* _build_policy_engine's store, with the org's quotas left as a parameter.
BootstrapStore(quotas) ==
    [global_policy |->
        [enforce_input_schema |-> TRUE,
         default_allowed_tools |-> {"health_check"},
         default_blocked_tools |-> {}],
     skills |-> BootstrapSkills,
     orgs |-> [o \in {"org_demo"} |->
        [enabled_skills |-> {"smart_buyer_basic"},
         allowed_tools |-> {},
         blocked_tools |-> {},
         roles |-> [r \in {"admin", "viewer"} |-> RolePolicy({}, {}, {"smart_buyer_basic"})],
         quotas |-> quotas]]]

\* ------------------------------------------------------------------ PolicyEngine
OrgIdOf(ctx) == IF ctx.org_id = NoneVal THEN "default" ELSE ctx.org_id

\* _resolve_org_policy: an org the store has not seen gets an empty policy,
\* which is written into the store.
resolve_org_store(st, ctx) ==
    IF OrgIdOf(ctx) \in DOMAIN st.orgs THEN st
    ELSE [st EXCEPT !.orgs = (OrgIdOf(ctx) :> EmptyOrgPolicy) @@ @]

resolve_org_policy(st, ctx) == resolve_org_store(st, ctx).orgs[OrgIdOf(ctx)]

HasRole(org, ctx) == ctx.role # NoneVal /\ ctx.role \in DOMAIN org.roles

resolve_role_policy(org, ctx) ==
    IF HasRole(org, ctx) THEN org.roles[ctx.role] ELSE RolePolicy({}, {}, {})

SkillTools(st, names) ==
    UNION {st.skills[s] : s \in names \cap DOMAIN st.skills}

tools_from_skills(st, org) == SkillTools(st, org.enabled_skills)

\* Faulty variant: the role's block set is forgotten.
compute_allowed_tools_no_role_block(st, org, ctx) ==
    LET g == st.global_policy
        role == resolve_role_policy(org, ctx)
        allowed == g.default_allowed_tools \cup org.allowed_tools
                   \cup tools_from_skills(st, org)
                   \cup (IF HasRole(org, ctx)
                         THEN role.allowed_tools \cup SkillTools(st, role.allowed_skills)
                         ELSE {})
        blocked == g.default_blocked_tools \cup org.blocked_tools
    IN allowed \ blocked

compute_allowed_tools(st, org, ctx) ==
    LET g == st.global_policy
        role == resolve_role_policy(org, ctx)
        allowed == g.default_allowed_tools \cup org.allowed_tools
                   \cup tools_from_skills(st, org)
                   \cup (IF HasRole(org, ctx)
                         THEN role.allowed_tools \cup SkillTools(st, role.allowed_skills)
                         ELSE {})
        blocked == g.default_blocked_tools \cup org.blocked_tools
                   \cup (IF HasRole(org, ctx) THEN role.blocked_tools ELSE {})
    IN allowed \ blocked

\* Faulty variant: deny-list semantics, a tool is allowed unless the org blocks it.
tool_allowed_unless_blocked(st, tool, ctx) ==
    tool \notin (st.global_policy.default_blocked_tools
                 \cup resolve_org_policy(st, ctx).blocked_tools)

\* validate_tool_allowed raises PermissionError unless this holds.
tool_allowed(st, tool, ctx) ==
    tool \in compute_allowed_tools(st, resolve_org_policy(st, ctx), ctx)

\* ------------------------------------------------------------------ usage tracker
UsageKey(ctx, d) ==
    <<IF ctx.org_id = NoneVal THEN "_" ELSE ctx.org_id,
      IF ctx.user_id = NoneVal THEN "_" ELSE ctx.user_id, d>>

ZeroSnapshot == [total_calls |-> 0, per_tool_calls |-> EmptyMap, total_llm_tokens |-> 0]

\* get_daily_usage stores a zero snapshot for a key it has not seen.
get_daily_usage_data(us, ctx, d) ==
    IF UsageKey(ctx, d) \in DOMAIN us THEN us ELSE (UsageKey(ctx, d) :> ZeroSnapshot) @@ us

get_daily_usage(us, ctx, d) == get_daily_usage_data(us, ctx, d)[UsageKey(ctx, d)]

Max0(n) == IF n > 0 THEN n ELSE 0

\* Faulty variant: the per-tool counter is left alone.
increment_total_only(us, ctx, tool, tokens_used, d) ==
    LET key == UsageKey(ctx, d)
        snap == Get(us, key, ZeroSnapshot)
    IN (key :> [snap EXCEPT !.total_calls = @ + 1]) @@ us

increment(us, ctx, tool, tokens_used, d) ==
    LET key == UsageKey(ctx, d)
        snap == Get(us, key, ZeroSnapshot)
        new == [total_calls |-> snap.total_calls + 1,
                total_llm_tokens |-> snap.total_llm_tokens + Max0(tokens_used),
                per_tool_calls |->
                    (tool :> (Get(snap.per_tool_calls, tool, 0) + 1)) @@ snap.per_tool_calls]
    IN (key :> new) @@ us

\* Faulty variant: the per-tool cap is not looked at.
quota_denial_no_per_tool(st, us, tool, ctx, tokens_used, d) ==
    LET limits == resolve_org_policy(st, ctx).quotas
        snap == get_daily_usage(us, ctx, d)
    IN IF limits.daily_calls # NoLimit /\ snap.total_calls >= limits.daily_calls
       THEN "daily_calls"
       ELSE IF limits.daily_llm_tokens # NoLimit
               /\ snap.total_llm_tokens + tokens_used > limits.daily_llm_tokens
       THEN "daily_llm_tokens"
       ELSE "none"

\* validate_quota's checks in the code's order, on the snapshot of day d:
\* the cap that raises RuntimeError, or "none".
quota_denial(st, us, tool, ctx, tokens_used, d) ==
    LET limits == resolve_org_policy(st, ctx).quotas
        snap == get_daily_usage(us, ctx, d)
    IN IF limits.daily_calls # NoLimit /\ snap.total_calls >= limits.daily_calls
       THEN "daily_calls"
       ELSE IF limits.daily_llm_tokens # NoLimit
               /\ snap.total_llm_tokens + tokens_used > limits.daily_llm_tokens
       THEN "daily_llm_tokens"
       ELSE IF tool \in DOMAIN limits.per_tool_daily
               /\ Get(snap.per_tool_calls, tool, 0) >= limits.per_tool_daily[tool]
       THEN "per_tool_daily"
       ELSE "none"

\* Faulty variant: the check does not count the call (accounting left to a later step).
validate_quota_usage_no_increment(st, us, tool, ctx, tokens_used, d_check, d_inc) ==
    get_daily_usage_data(us, ctx, d_check)

\* validate_quota's effect on the tracker: the snapshot read on day d_check is
\* created if missing; a call under its caps is counted on the day the clock
\* shows when increment runs.
validate_quota_usage(st, us, tool, ctx, tokens_used, d_check, d_inc) ==
    IF quota_denial(st, us, tool, ctx, tokens_used, d_check) = "none"
    THEN increment(get_daily_usage_data(us, ctx, d_check), ctx, tool, tokens_used, d_inc)
    ELSE get_daily_usage_data(us, ctx, d_check)

\* Faulty variant: parameters are passed on unvalidated.
sanitize_ok_unvalidated(st, spec, params_valid) == TRUE

\* sanitize_parameters raises ValueError unless this holds.
sanitize_ok(st, spec, params_valid) ==
    (~st.global_policy.enforce_input_schema) \/ (~spec.input_schema) \/ params_valid

\* validate_output raises ValidationError unless this holds.
output_ok(spec, output_valid) == (~spec.output_schema) \/ output_valid

\* ------------------------------------------------------------------ ControlPlane.execute
\* Exception classes that derive from Exception; asyncio.CancelledError derives
\* from BaseException only.
ExceptionClasses ==
    {"KeyError", "PermissionError", "RuntimeError", "ValueError", "ValidationError",
     "TimeoutError", "ConnectionError"}

\* Faulty variant: the handler names the policy's exceptions only.
execute_catches_policy_errors(exc) == exc \in {"PermissionError", "RuntimeError", "ValueError"}

\* execute's handler: except Exception.
execute_catches(exc) == exc \in ExceptionClasses

QuotaMessage(denial) ==
    CASE denial = "daily_calls" -> "Daily tool-call quota exceeded"
      [] denial = "daily_llm_tokens" -> "Daily LLM token quota exceeded"
      [] OTHER -> "Daily quota exceeded for tool"

Outcome(st, us, stages, exc, msg) ==
    [store |-> st, usage |-> us, stages |-> stages, exc |-> exc, msg |-> msg]

\* The try block up to the handler call: lookup, validate_tool_allowed,
\* validate_quota(tokens_used=0), sanitize_parameters, spec.handler(**kwargs).
\* exc is the exception raised on the way, or NoneVal when the handler was called.
execute_to_handler(st, us, reg, step, ctx, d_check, d_inc) ==
    IF step.action \notin DOMAIN reg
    THEN Outcome(st, us, <<"lookup">>, "KeyError", "Unknown tool")
    ELSE LET spec == reg[step.action]
             st1 == resolve_org_store(st, ctx)
         IN IF ~tool_allowed(st, step.action, ctx)
            THEN Outcome(st1, us, <<"lookup", "allow">>, "PermissionError", "is not allowed")
            ELSE LET denial == quota_denial(st1, us, step.action, ctx, 0, d_check)
                     us1 == validate_quota_usage(st1, us, step.action, ctx, 0, d_check, d_inc)
                 IN IF denial # "none"
                    THEN Outcome(st1, us1, <<"lookup", "allow", "quota">>,
                                 "RuntimeError", QuotaMessage(denial))
                    ELSE IF ~sanitize_ok(st1, spec, step.params_valid)
                    THEN Outcome(st1, us1, <<"lookup", "allow", "quota", "sanitize">>,
                                 "ValueError", "Invalid parameters")
                    ELSE Outcome(st1, us1,
                                 <<"lookup", "allow", "quota", "sanitize", "handler">>,
                                 NoneVal, NoneVal)

NoCtx == [org_id |-> NoneVal, user_id |-> NoneVal, role |-> NoneVal]

NoResult ==
    [kind |-> "none", success |-> FALSE, action |-> NoneVal, error |-> NoneVal,
     error_type |-> NoneVal, stages |-> <<>>, ctx |-> NoCtx, params_valid |-> FALSE]

\* The ToolResult execute returns (lines 134-156), or the exception it lets through.
ToolResult(step, ctx, stages, exc, msg) ==
    IF exc = NoneVal
    THEN [kind |-> "returned", success |-> TRUE, action |-> step.action, error |-> NoneVal,
          error_type |-> NoneVal, stages |-> stages, ctx |-> ctx,
          params_valid |-> step.params_valid]
    ELSE IF execute_catches(exc)
    THEN [kind |-> "returned", success |-> FALSE, action |-> step.action, error |-> msg,
          error_type |-> exc, stages |-> stages, ctx |-> ctx,
          params_valid |-> step.params_valid]
    ELSE [kind |-> "raised", success |-> FALSE, action |-> step.action, error |-> msg,
          error_type |-> exc, stages |-> stages, ctx |-> ctx,
          params_valid |-> step.params_valid]

Idle == [pc |-> "idle"]
Slots == 1 .. MaxInFlight
FreeSlot(c) == inflight[c].pc = "idle" /\ \A b \in Slots : b < c => inflight[b].pc # "idle"

\* Requests the callers make.
StepActions == {"price_compare", "decision_score", "admin_tool"}
Contexts ==
    {[org_id |-> "org_demo", user_id |-> "u1", role |-> "viewer"], NoCtx}
HandlerErrors == {"TimeoutError"}

CountPass(p, key, tool) ==
    (<<key, tool>> :> (Get(p, <<key, tool>>, 0) + 1)) @@
    (<<key, "*">> :> (Get(p, <<key, "*">>, 0) + 1)) @@ p

\* execute from its first line to the await of the handler's coroutine, or to
\* the return of a failed result when a stage before the handler raised.
ExecuteBegin(c, step, ctx, tick) ==
    /\ ncalls < MaxCalls
    /\ LET d_inc == IF tick /\ day < MaxDay THEN day + 1 ELSE day
           out == execute_to_handler(store, usage, registry, step, ctx, day, d_inc)
           quota_passed == Len(out.stages) >= 4
       IN /\ IF out.exc = NoneVal THEN FreeSlot(c) ELSE c = 1
          /\ store' = out.store
          /\ usage' = out.usage
          /\ day' = IF Len(out.stages) >= 3 THEN d_inc ELSE day
          /\ passed' = IF quota_passed
                       THEN CountPass(passed, UsageKey(ctx, day), step.action)
                       ELSE passed
          /\ IF out.exc = NoneVal
             THEN /\ inflight' = [inflight EXCEPT ![c] =
                        [pc |-> "awaiting", step |-> step, ctx |-> ctx, stages |-> out.stages,
                         request_ctx |-> IF registry[step.action].pass_context
                                         THEN ctx ELSE NoCtx]]
                  /\ last_result' = last_result
             ELSE /\ inflight' = inflight
                  /\ last_result' = ToolResult(step, ctx, out.stages, out.exc, out.msg)
    /\ ncalls' = ncalls + 1
    /\ UNCHANGED <<registry, non_cp_vars>>

\* The awaited handler returns or raises; validate_output; the result is built,
\* logged and returned.
ExecuteFinish(c, handler_exc, output_valid) ==
    /\ inflight[c].pc = "awaiting"
    /\ LET call == inflight[c]
           spec == registry[call.step.action]
       IN last_result' =
            IF handler_exc # NoneVal
            THEN ToolResult(call.step, call.ctx, call.stages, handler_exc, "handler failed")
            ELSE IF ~output_ok(spec, output_valid)
            THEN ToolResult(call.step, call.ctx, Append(call.stages, "validate"),
                            "ValidationError", "validation error")
            ELSE ToolResult(call.step, call.ctx, Append(call.stages, "validate"),
                            NoneVal, NoneVal)
    /\ inflight' = [inflight EXCEPT ![c] = Idle]
    /\ UNCHANGED <<store, registry, usage, day, ncalls, passed, non_cp_vars>>

\* The task awaiting execute is cancelled (the flow's wait_for timed out):
\* CancelledError is thrown into the await and is not an Exception.
ExecuteCancel(c) ==
    /\ inflight[c].pc = "awaiting"
    /\ last_result' = ToolResult(inflight[c].step, inflight[c].ctx, inflight[c].stages,
                                 "CancelledError", "cancelled")
    /\ inflight' = [inflight EXCEPT ![c] = Idle]
    /\ UNCHANGED <<store, registry, usage, day, ncalls, passed, non_cp_vars>>

\* Midnight passes.
Tick ==
    /\ day < MaxDay
    /\ day' = day + 1
    /\ UNCHANGED <<store, registry, usage, inflight, ncalls, last_result, passed, non_cp_vars>>

QuotaChoices ==
    {NoQuotas,
     [daily_calls |-> DailyCap, per_tool_daily |-> [t \in {"price_compare"} |-> ToolCap],
      daily_llm_tokens |-> NoLimit]}

Begin ==
    \E c \in Slots, a \in StepActions, ctx \in Contexts, pv \in BOOLEAN, tick \in BOOLEAN :
        ExecuteBegin(c, [action |-> a, params_valid |-> pv], ctx, tick)

Finish ==
    \E c \in Slots, e \in HandlerErrors \cup {NoneVal}, ov \in BOOLEAN :
        ExecuteFinish(c, e, ov)

Cancel == \E c \in Slots : ExecuteCancel(c)

\* ------------------------------------------------------------------ policy configurations
RegistryWithAdmin ==
    ("admin_tool" :> [input_schema |-> FALSE, output_schema |-> FALSE, pass_context |-> FALSE])
    @@ BootstrapRegistry

\* Policy stores built like _build_policy_engine's, over every combination of
\* the allow, block and skill sets below.
PolicyStores ==
    {[global_policy |->
        [enforce_input_schema |-> TRUE,
         default_allowed_tools |-> {"health_check"},
         default_blocked_tools |-> gb],
      skills |-> BootstrapSkills,
      orgs |-> [o \in {"org_demo"} |->
        [enabled_skills |-> os,
         allowed_tools |-> oa,
         blocked_tools |-> ob,
         roles |-> [r \in {"viewer"} |-> RolePolicy(ra, rb, rs)],
         quotas |-> q]]] :
     gb \in {{}, {"price_compare"}},
     os \in {{}, {"smart_buyer_basic"}},
     oa \in {{}, {"price_compare"}},
     ob \in {{}, {"decision_score"}},
     ra \in {{}, {"price_compare"}},
     rb \in {{}, {"price_compare"}},
     rs \in {{}, {"smart_buyer_basic"}},
     q \in QuotaChoices}

PolicyContexts ==
    {[org_id |-> "org_demo", user_id |-> "u1", role |-> "viewer"],
     [org_id |-> "org_demo", user_id |-> "u1", role |-> "user"],
     [org_id |-> NoneVal, user_id |-> "u1", role |-> "viewer"]}

PolicyBegin ==
    \E a \in StepActions, ctx \in PolicyContexts :
        ExecuteBegin(1, [action |-> a, params_valid |-> TRUE], ctx, FALSE)

PolicyFinish == ExecuteFinish(1, NoneVal, TRUE)

\* ------------------------------------------------------------------ Planner
DefaultMaxSteps == 8   \* PlannerConfig.max_steps

Step(kind, tool) == [kind |-> kind, tool |-> tool]
Finalize == Step("finalize", NoneVal)
Think == Step("think", NoneVal)

\* _fallback_plan, by the profile's flow.
fallback_plan(flow_name) ==
    IF flow_name = "smart_buyer"
    THEN <<Think, Step("tool", "price_compare"), Step("tool", "scraper_fetch"),
           Step("decide", "decision_score"), Step("explain", NoneVal), Finalize>>
    ELSE IF flow_name = "deep_research"
    THEN <<Step("retrieve", NoneVal), Think, Step("explain", NoneVal), Finalize>>
    ELSE <<Think, Finalize>>

\* _ask_llm: the completion's text, or a JSON error object when the call raised.
ErrorObject == [is_dict |-> TRUE, is_plan |-> FALSE, steps |-> <<>>]
ask_llm(completion) ==
    IF completion.raises THEN [wrap |-> "plain", obj |-> ErrorObject] ELSE completion.text

\* _extract_json: strict parse, then the code fence stripped, then the trailing
\* {...} of the text; only a JSON object counts.
NoObject == [is_dict |-> FALSE, is_plan |-> FALSE, steps |-> <<>>]
extract_json(raw) ==
    IF raw.wrap \in {"plain", "fence", "prose"} /\ raw.obj.is_dict THEN raw.obj ELSE NoObject

Take(q, n) == SubSeq(q, 1, IF Len(q) < n THEN Len(q) ELSE n)

RECURSIVE Filter(_, _, _, _)
\* The loop of _trim_and_filter over the truncated steps.
Filter(steps, allowed, tools, i) ==
    IF i > Len(steps) THEN <<>>
    ELSE LET s == steps[i]
             keep == IF s.kind = "tool"
                     THEN /\ s.tool # NoneVal
                          /\ s.tool \in allowed
                          /\ \/ tools.has_tool = "absent"
                             \/ tools.has_tool = "raises"
                             \/ s.tool \in tools.known
                     ELSE TRUE
         IN (IF keep THEN <<s>> ELSE <<>>) \o Filter(steps, allowed, tools, i + 1)

trim_and_filter(steps, cfg, profile, tools) ==
    LET trimmed == Take(steps, cfg.max_steps)
    IN IF cfg.enforce_allowed_tools /\ profile.allowed_tools # {}
       THEN Filter(trimmed, profile.allowed_tools, tools, 1)
       ELSE trimmed

\* _parse_or_fallback: a JSON object that validates as a PlanModel is trimmed
\* and filtered; anything else gives the fallback plan as it is.
parse_or_fallback(raw, cfg, profile, tools) ==
    LET obj == extract_json(raw)
    IN IF obj.is_dict /\ obj.is_plan
       THEN trim_and_filter(obj.steps, cfg, profile, tools)
       ELSE fallback_plan(IF profile.flow = NoneVal THEN "chat" ELSE profile.flow)

post_validate(steps, cfg) ==
    LET s1 == IF cfg.require_finalize /\ (steps = <<>> \/ steps[Len(steps)].kind # "finalize")
              THEN Append(steps, Finalize) ELSE steps
    IN IF s1 = <<>> THEN <<Finalize>> ELSE s1

\* Planner.plan: _build_prompt reads profile.allowed_tools, which raises
\* AttributeError on a profile without that attribute.
plan(inp) ==
    IF ~inp.profile.has_allowed_tools
    THEN [status |-> "raised", error |-> "AttributeError", steps |-> <<>>]
    ELSE [status |-> "returned", error |-> NoneVal,
          steps |-> post_validate(
              parse_or_fallback(ask_llm(inp.completion), inp.cfg, inp.profile, inp.tools),
              inp.cfg)]

\* ---- the planner's inputs
StepAlphabet ==
    {Think, Finalize, Step("tool", "price_compare"), Step("tool", "web_search"),
     Step("tool", NoneVal)}

RECURSIVE SeqsUpTo(_, _)
SeqsUpTo(S, n) ==
    IF n = 0 THEN {<<>>}
    ELSE LET shorter == SeqsUpTo(S, n - 1)
         IN shorter \cup {Append(q, x) : q \in {r \in shorter : Len(r) = n - 1}, x \in S}

ThinkPad(n) == [i \in 1 .. n |-> Think]

\* Plans a completion returns: every short plan, alone or after 7 or 8 think
\* steps, so that plans longer than max_steps occur.
CompletionPlans == {ThinkPad(n) \o q : n \in {0, 7, 8}, q \in SeqsUpTo(StepAlphabet, MaxPlanLen)}

PlanObject(steps) == [is_dict |-> TRUE, is_plan |-> TRUE, steps |-> steps]
SamplePlan == <<Step("tool", "price_compare"), Think>>

Completions ==
    {[raises |-> FALSE, text |-> [wrap |-> "plain", obj |-> PlanObject(q)]] : q \in CompletionPlans}
    \cup {[raises |-> FALSE, text |-> [wrap |-> w, obj |-> PlanObject(SamplePlan)]] :
            w \in {"fence", "prose", "garbage"}}
    \cup {[raises |-> FALSE, text |-> [wrap |-> "plain", obj |-> o]] :
            o \in {[is_dict |-> FALSE, is_plan |-> FALSE, steps |-> SamplePlan],
                   [is_dict |-> TRUE, is_plan |-> FALSE, steps |-> SamplePlan]}}
    \cup {[raises |-> TRUE, text |-> [wrap |-> "garbage", obj |-> ErrorObject]]}

\* SmartBuyerProfile (allow_tools, no allowed_tools attribute, no flow), and
\* profiles that carry allowed_tools and a flow.
Profiles ==
    {[has_allowed_tools |-> FALSE, allowed_tools |-> {}, flow |-> NoneVal]}
    \cup {[has_allowed_tools |-> TRUE, allowed_tools |-> a, flow |-> f] :
            a \in {{}, {"price_compare", "decision_score"}},
            f \in {NoneVal, "smart_buyer", "deep_research"}}

\* The registry handed to the planner: the repository's registries have no
\* has_tool method; a registry that has one may know the tool, or raise.
PlannerRegistries ==
    {[has_tool |-> "absent", known |-> {"price_compare", "decision_score"}]}
    \cup {[has_tool |-> h, known |-> k] :
            h \in {"present", "raises"}, k \in {{}, {"price_compare", "decision_score"}}}

PlannerConfigs ==
    {[max_steps |-> DefaultMaxSteps, enforce_allowed_tools |-> e, require_finalize |-> TRUE] :
        e \in BOOLEAN}

NoPlan == [status |-> "pending", error |-> NoneVal, steps |-> <<>>]
NoPlannerInput ==
    [cfg |-> [max_steps |-> DefaultMaxSteps, enforce_allowed_tools |-> TRUE,
              require_finalize |-> TRUE],
     profile |-> [has_allowed_tools |-> FALSE, allowed_tools |-> {}, flow |-> NoneVal],
     tools |-> [has_tool |-> "absent", known |-> {}],
     completion |-> [raises |-> TRUE, text |-> [wrap |-> "garbage", obj |-> ErrorObject]]]

PlannerIdle == pl_in = NoPlannerInput /\ pl_out = NoPlan

\* await planner.plan(state)
PlanCall ==
    /\ pl_out.status = "pending"
    /\ pl_out' = plan(pl_in)
    /\ UNCHANGED <<pl_in, non_pl_vars>>

\* ------------------------------------------------------------------ AgentState
FactKeys == {"offers", "scoring", "explanation"}

\* AgentState.output = None
NoOutput ==
    [offers |-> NoneVal, scoring |-> NoneVal, explanation |-> NoneVal, summary |-> NoneVal,
     error |-> NoneVal, present |-> FALSE]

NewAgentState(budget, spent, facts) ==
    [facts |-> facts, metadata |-> EmptyMap, log |-> <<>>, errors |-> <<>>,
     budget_token |-> budget, spent_token |-> spent,
     step_index |-> 0, current_node |-> NoneVal,
     done |-> FALSE, halted |-> FALSE, output |-> NoOutput]

add_log(s, kind, step, error) ==
    [s EXCEPT !.log = Append(@, [kind |-> kind, step |-> step, node |-> s.current_node,
                                 error |-> error])]

mark_done(s, output) == [s EXCEPT !.output = output, !.done = TRUE]

halt(s, reason, output) ==
    [s EXCEPT !.halted = TRUE,
              !.errors = Append(@, reason),
              !.metadata = [k \in DOMAIN @ \cup {"halt_reason"} |->
                              IF k = "halt_reason" THEN reason ELSE @[k]],
              !.output = IF output # NoOutput THEN output ELSE @]

\* Faulty variant: the tokens are recorded and the budget is not looked at.
use_tokens_unflagged(s, n) == [s EXCEPT !.spent_token = @ + n]

\* use_tokens: the spent tokens grow; past a positive budget the state is
\* flagged halted and the error list grows, nothing else.
use_tokens(s, n) ==
    LET spent == s.spent_token + n
    IN  IF s.budget_token > 0 /\ spent > s.budget_token
        THEN [s EXCEPT !.spent_token = spent, !.halted = TRUE,
                       !.errors = Append(@, "token_budget_exceeded")]
        ELSE [s EXCEPT !.spent_token = spent]

next_step(s, node) == [s EXCEPT !.step_index = @ + 1, !.current_node = node]

\* ------------------------------------------------------------------ nodes
NodeNames == {"price_compare", "scraper_fetch", "decision", "explain", "finalize"}

cost_per_call_tokens ==
    [n \in NodeNames |->
        CASE n = "price_compare" -> 50
          [] n = "scraper_fetch" -> 20
          [] n = "decision" -> 80
          [] n = "explain" -> 20
          [] OTHER -> 0]

\* Faulty variant: finalize sets the output but leaves the run unmarked.
finalize_run_unmarked(s) ==
    [s EXCEPT !.output = [offers |-> Get(s.facts, "offers", "empty"),
                          scoring |-> Get(s.facts, "scoring", "empty"),
                          explanation |-> Get(s.facts, "explanation", "empty"),
                          summary |-> NoneVal, error |-> NoneVal, present |-> TRUE]]

\* FinalizeNode._run: the envelope from the facts, then mark_done.
finalize_run(s) ==
    mark_done(s, [offers |-> Get(s.facts, "offers", "empty"),
                  scoring |-> Get(s.facts, "scoring", "empty"),
                  explanation |-> Get(s.facts, "explanation", "empty"),
                  summary |-> NoneVal, error |-> NoneVal, present |-> TRUE])

\* Faulty variant: an exception in a node halts the run.
node_run_fail_hard(s, node) ==
    IF cost_per_call_tokens[node] # 0
    THEN halt(add_log(s, node, "run", "AttributeError"), "node_error", NoOutput)
    ELSE add_log(finalize_run(s), node, "run", NoneVal)

\* BaseNode.run.  A node with a per-call cost calls self.spent_tokens, which no
\* node class defines (the helper is spend_tokens): the AttributeError is
\* caught, logged, and the node's own _run never starts.
node_run(s, node) ==
    IF cost_per_call_tokens[node] # 0
    THEN add_log(add_log(s, node, "error", "AttributeError"), node, "run", "AttributeError")
    ELSE add_log(finalize_run(s), node, "run", NoneVal)

\* ------------------------------------------------------------------ SmartBuyerFlow
PartialOutput(s, summary) ==
    [offers |-> Get(s.facts, "offers", "empty"),
     scoring |-> Get(s.facts, "scoring", "empty"),
     explanation |-> Get(s.facts, "explanation", "empty"),
     summary |-> summary, error |-> NoneVal, present |-> TRUE]

\* Faulty variant: the budget is never looked at.
budget_exceeded_never(s) == FALSE

budget_exceeded(s) ==
    IF s.budget_token <= 0 THEN FALSE ELSE s.spent_token >= s.budget_token

\* The node class _instantiate_nodes picks for a step; "none" when it skips it.
NodeFor(st) ==
    CASE st.kind = "tool" /\ st.tool = "price_compare" -> "price_compare"
      [] st.kind = "tool" /\ st.tool = "scraper_fetch" -> "scraper_fetch"
      [] st.kind = "decide" \/ (st.kind = "tool" /\ st.tool = "decision_score") -> "decision"
      [] st.kind = "explain" -> "explain"
      [] st.kind = "finalize" -> "finalize"
      [] OTHER -> "none"

RECURSIVE NodesOf(_, _)
NodesOf(steps, i) ==
    IF i > Len(steps) THEN <<>>
    ELSE (IF NodeFor(steps[i]) = "none" THEN <<>> ELSE <<NodeFor(steps[i])>>)
         \o NodesOf(steps, i + 1)

\* _instantiate_nodes.  DecisionNode's constructor takes no control_plane
\* keyword, so building one raises TypeError.
instantiate_nodes(steps) ==
    LET picked == NodesOf(steps, 1)
        nodes == IF picked = <<>>
                 THEN <<"price_compare", "scraper_fetch", "decision", "explain", "finalize">>
                 ELSE picked
        closed == IF nodes[Len(nodes)] # "finalize" THEN Append(nodes, "finalize") ELSE nodes
    IN  IF \E i \in 1 .. Len(nodes) : nodes[i] = "decision"
        THEN [error |-> "TypeError", nodes |-> <<>>]
        ELSE [error |-> NoneVal, nodes |-> closed]

\* What _run_inner returns once its loop has ended.
FlowOutput(s) ==
    [body |-> IF s.output # NoOutput THEN s.output
              ELSE [offers |-> Get(s.facts, "offers", "empty"),
                    scoring |-> Get(s.facts, "scoring", "empty"),
                    explanation |-> Get(s.facts, "explanation", "empty"),
                    summary |-> NoneVal, error |-> NoneVal, present |-> TRUE],
     metadata |-> [step_index |-> s.step_index, halted |-> s.halted,
                   halt_reason |-> Get(s.metadata, "halt_reason", NoneVal),
                   error |-> s.output.error]]

NoFlowOutput ==
    [body |-> NoOutput,
     metadata |-> [step_index |-> 0, halted |-> FALSE, halt_reason |-> NoneVal,
                   error |-> NoneVal]]

\* Faulty variant: the loop never looks at the step counter.
iteration_unguarded(s, nodes, max_steps, i) ==
    IF i > Len(nodes) \/ s.done \/ s.halted
    THEN [state |-> s, goes_on |-> FALSE]
    ELSE LET ran == node_run(next_step(s, nodes[i]), nodes[i])
         IN  IF budget_exceeded(ran)
             THEN [state |-> halt(ran, "token_budget_exceeded",
                                  PartialOutput(ran, "budget_exceeded")),
                   goes_on |-> FALSE]
             ELSE [state |-> ran, goes_on |-> TRUE]

\* One pass of _run_inner's loop at position i: the state it leaves and whether
\* the loop goes on to position i + 1.
iteration(s, nodes, max_steps, i) ==
    IF i > Len(nodes) \/ s.done \/ s.halted
    THEN [state |-> s, goes_on |-> FALSE]
    ELSE IF max_steps # 0 /\ s.step_index >= max_steps
    THEN [state |-> halt(s, "max_steps_exceeded", PartialOutput(s, "max_steps_exceeded")),
          goes_on |-> FALSE]
    ELSE LET ran == node_run(next_step(s, nodes[i]), nodes[i])
         IN  IF budget_exceeded(ran)
             THEN [state |-> halt(ran, "token_budget_exceeded",
                                  PartialOutput(ran, "budget_exceeded")),
                   goes_on |-> FALSE]
             ELSE [state |-> ran, goes_on |-> TRUE]

\* run, up to the loop: build the nodes from the planner's plan when the flow
\* was not built yet.  An exception of the planner or of a node constructor
\* leaves run.
FlowRun ==
    /\ flow.pc = "created"
    /\ LET built == IF flow.plan.status = "raised"
                    THEN [error |-> flow.plan.error, nodes |-> <<>>]
                    ELSE instantiate_nodes(flow.plan.steps)
       IN  flow' = IF built.error # NoneVal
                   THEN [flow EXCEPT !.pc = "raised", !.error = built.error]
                   ELSE [flow EXCEPT !.pc = "looping", !.nodes = built.nodes, !.i = 1]
    /\ UNCHANGED <<state, non_fl_vars>>

\* _run_inner: one pass of the loop; the pass that ends the loop returns.
FlowLoop ==
    /\ flow.pc = "looping"
    /\ LET it == iteration(state, flow.nodes, flow.max_steps, flow.i)
       IN  /\ state' = it.state
           /\ flow' = IF it.goes_on
                      THEN [flow EXCEPT !.i = @ + 1]
                      ELSE [flow EXCEPT !.pc = "returned", !.out = FlowOutput(it.state)]
    /\ UNCHANGED non_fl_vars

\* ------------------------------------------------------------------ node logic
\* build_request_context: a header the caller left out falls back to the demo
\* identity.
build_request_context(ctx) ==
    [org_id |-> IF ctx.org_id # NoneVal THEN ctx.org_id ELSE "org_demo",
     user_id |-> IF ctx.user_id # NoneVal THEN ctx.user_id ELSE "user_demo",
     role |-> IF ctx.role # NoneVal THEN ctx.role ELSE "user"]

\* ControlPlane.execute from call to return, for a caller that does nothing
\* else meanwhile: the stages before the handler, then the handler's outcome
\* and the output validation.
execute_result(st, us, reg, step, ctx, d, handler_exc, output_valid) ==
    LET out == execute_to_handler(st, us, reg, step, ctx, d, d)
        res == IF out.exc # NoneVal
               THEN ToolResult(step, ctx, out.stages, out.exc, out.msg)
               ELSE IF handler_exc # NoneVal
               THEN ToolResult(step, ctx, out.stages, handler_exc, "handler failed")
               ELSE IF ~output_ok(reg[step.action], output_valid)
               THEN ToolResult(step, ctx, Append(out.stages, "validate"),
                               "ValidationError", "validation error")
               ELSE ToolResult(step, ctx, Append(out.stages, "validate"), NoneVal, NoneVal)
    IN  [store |-> out.store, usage |-> out.usage, result |-> res]

\* halt_state_with_error: the reason goes to the metadata and to halt, with a
\* payload built from the facts.
halt_state_with_error(s, reason) ==
    halt(s, reason, [PartialOutput(s, reason) EXCEPT !.error = reason])

\* The reason PriceCompareNode and ScraperNode pass on for a failed result.
reported_reason(result) ==
    IF result.error_type # NoneVal THEN result.error_type ELSE "tool_error"

SetFact(s, k, v) ==
    [s EXCEPT !.facts = [x \in DOMAIN @ \cup {k} |-> IF x = k THEN v ELSE @[x]]]

\* PriceCompareNode._run with a control plane, given the result of its
\* execute call: a failed result halts the state, a successful one writes the
\* offers.
price_compare_run(s, result) ==
    IF ~result.success
    THEN SetFact(halt_state_with_error(s, reported_reason(result)),
                 "price_compare_note", "denied or failed by control_plane")
    ELSE SetFact(s, "offers", "found")

\* ------------------------------------------------------------------ PriceCompareTool
CbThreshold == 2     \* cb_threshold
CbCooldown == 2      \* cb_cooldown_s, in clock ticks
ToolMaxRetries == 1  \* max_retries of the tool
MaxToolCalls == 4    \* call()s per behaviour
MaxTime == 4         \* last value of the clock

NoTime == -1
ToolSlots == 1 .. 2

IdleCall ==
    [pc |-> "idle", attempt |-> 0, invoked |-> 0, sleeps |-> 0, result |-> "none",
     last_error |-> NoneVal, after_cooldown |-> FALSE]

\* __init__: breaker closed, no failures.  streak, opened_at, ncalls, last and
\* engine_calls are history: the failed calls since the last success, the
\* clock at the last failure that found the streak at the threshold, the
\* number of calls, the slot of the latest call, the number of engine.compare
\* invocations.  after_cooldown of a call tells that it was made once the
\* window of an open breaker had passed.
NewTool(max_retries, cb_threshold, cb_cooldown) ==
    [max_retries |-> max_retries, cb_threshold |-> cb_threshold,
     cb_cooldown |-> cb_cooldown,
     cb_failures |-> 0, cb_open_until |-> 0, now |-> 0,
     calls |-> [c \in ToolSlots |-> IdleCall],
     ncalls |-> 0, last |-> 1, engine_calls |-> 0, streak |-> 0, opened_at |-> NoTime]

\* The threshold of consecutive failed calls was reached and the cooldown
\* counted from the last of them has not passed yet, or has passed.
InWindow(t) ==
    /\ t.streak >= t.cb_threshold
    /\ t.opened_at # NoTime
    /\ t.now < t.opened_at + t.cb_cooldown

CooledDown(t) ==
    /\ t.streak >= t.cb_threshold
    /\ t.opened_at # NoTime
    /\ t.now >= t.opened_at + t.cb_cooldown

\* Faulty variant: the breaker never reports open.
circuit_open_never(t) == FALSE

circuit_open(t) == t.now < t.cb_open_until

\* Faulty variant: a success leaves the breaker's fields alone.
cb_record_success_keep(t) == t

cb_record_success(t) == [t EXCEPT !.cb_failures = 0, !.cb_open_until = 0]

\* Faulty variant: a failure after the window has passed starts a new count.
cb_record_failure_after_window(t) ==
    [t EXCEPT !.cb_failures = IF t.cb_open_until # 0 /\ t.now >= t.cb_open_until THEN 1
                              ELSE IF @ + 1 < t.cb_threshold + 1 THEN @ + 1
                              ELSE t.cb_threshold + 1]

cb_record_failure(t) ==
    [t EXCEPT !.cb_failures = IF @ + 1 < t.cb_threshold + 1 THEN @ + 1
                              ELSE t.cb_threshold + 1]

cb_maybe_open(t) ==
    IF t.cb_failures >= t.cb_threshold
    THEN [t EXCEPT !.cb_open_until = t.now + t.cb_cooldown]
    ELSE t

\* attempts = 1 + max(0, max_retries)
tool_attempts(t) == 1 + (IF t.max_retries > 0 THEN t.max_retries ELSE 0)

\* call() up to its first await: the breaker check, the payload, and the first
\* engine.compare invocation.
ToolCall ==
    \E c \in ToolSlots, query_ok \in BOOLEAN :
        /\ pc_tool.calls[c].pc \in {"idle", "done"}
        /\ pc_tool.ncalls < MaxToolCalls
        /\ pc_tool' =
             LET t == [pc_tool EXCEPT !.ncalls = @ + 1, !.last = c]
                 fresh == [IdleCall EXCEPT !.after_cooldown = CooledDown(pc_tool)]
             IN  IF circuit_open(pc_tool)
                 THEN [t EXCEPT !.calls[c] = [fresh EXCEPT !.pc = "done",
                                                           !.result = "circuit_open",
                                                           !.last_error = "circuit_open"]]
                 ELSE IF ~query_ok
                 THEN [t EXCEPT !.calls[c] = [fresh EXCEPT !.pc = "done",
                                                           !.result = "empty_query"]]
                 ELSE [t EXCEPT !.calls[c] = [fresh EXCEPT !.pc = "attempting",
                                                           !.invoked = 1],
                                !.engine_calls = @ + 1]
        /\ UNCHANGED <<retry, non_tl_vars>>

\* The awaited engine call ends: a result resets the breaker and is returned;
\* a timeout or an exception goes on to the backoff sleep when attempts remain,
\* and otherwise counts one failed call, opens the breaker at the threshold
\* and returns the failure envelope.
ToolAttemptEnds ==
    \E c \in ToolSlots, outcome \in {"ok", "timeout", "ConnectionError", "ValueError"} :
        /\ pc_tool.calls[c].pc = "attempting"
        /\ pc_tool' =
             IF outcome = "ok"
             THEN [cb_record_success(pc_tool) EXCEPT
                     !.calls[c].pc = "done", !.calls[c].result = "offers",
                     !.streak = 0, !.opened_at = NoTime]
             ELSE IF pc_tool.calls[c].attempt < tool_attempts(pc_tool) - 1
             THEN [pc_tool EXCEPT !.calls[c].pc = "sleeping", !.calls[c].last_error = outcome]
             ELSE LET t == cb_maybe_open(cb_record_failure(pc_tool))
                  IN  [t EXCEPT !.calls[c].pc = "done", !.calls[c].result = "failed",
                                !.calls[c].last_error = outcome,
                                !.streak = @ + 1,
                                !.opened_at = IF pc_tool.streak + 1 >= pc_tool.cb_threshold
                                              THEN pc_tool.now ELSE @]
        /\ UNCHANGED <<retry, non_tl_vars>>

\* The backoff sleep ends and the next attempt invokes the engine.
ToolBackoffEnds ==
    \E c \in ToolSlots :
        /\ pc_tool.calls[c].pc = "sleeping"
        /\ pc_tool' = [pc_tool EXCEPT !.calls[c].pc = "attempting",
                                !.calls[c].attempt = @ + 1,
                                !.calls[c].sleeps = @ + 1,
                                !.calls[c].invoked = @ + 1,
                                !.engine_calls = @ + 1]
        /\ UNCHANGED <<retry, non_tl_vars>>

\* time.monotonic() moves on.
ToolTick ==
    /\ pc_tool.now < MaxTime
    /\ pc_tool' = [pc_tool EXCEPT !.now = @ + 1]
    /\ UNCHANGED <<retry, non_tl_vars>>

\* ------------------------------------------------------------------ retry loops
\* tries, sleeps and seen are history: the attempts started, the backoff sleeps
\* ended, the errors of the failed attempts in order.
NoRetry ==
    [kind |-> "none", max_retries |-> 0, pc |-> "idle", attempt |-> 0, tries |-> 0,
     sleeps |-> 0, last_error |-> NoneVal, outcome |-> "none", raised |-> NoneVal,
     seen |-> <<>>]

\* The loop at its first awaited attempt: _fetch_with_retry counts attempt from
\* 0 and adds one after a failure, _run_with_retry adds one before the attempt.
NewRetry(kind, max_retries) ==
    [NoRetry EXCEPT !.kind = kind, !.max_retries = max_retries, !.pc = "attempting",
                    !.attempt = IF kind = "runner" THEN 1 ELSE 0, !.tries = 1]

MaxRetries == 3      \* largest max_retries of a scraper fetch or a runner run

\* _fetch_with_retry: the awaited request ends.  A response is built into the
\* result; an httpx timeout or request error is kept as last_error, and the
\* loop ends with the failure result once attempt exceeds max_retries; any
\* other exception reaches the handler that reads the unbound name exc.
ScraperAttemptEnds ==
    \E outcome \in {"response", "TimeoutException", "RequestError", "RuntimeError"} :
        /\ retry.kind = "scraper"
        /\ retry.pc = "attempting"
        /\ retry' =
             IF outcome = "response"
             THEN [retry EXCEPT !.pc = "ended", !.outcome = "result"]
             ELSE IF outcome \in {"TimeoutException", "RequestError"}
             THEN IF retry.attempt + 1 > retry.max_retries
                  THEN [retry EXCEPT !.attempt = @ + 1, !.last_error = outcome,
                                     !.seen = Append(@, outcome), !.pc = "ended", !.outcome = "failure_result"]
                  ELSE [retry EXCEPT !.attempt = @ + 1, !.last_error = outcome,
                                     !.seen = Append(@, outcome), !.pc = "sleeping"]
             ELSE [retry EXCEPT !.pc = "ended", !.outcome = "raised",
                                !.raised = "UnboundLocalError", !.seen = Append(@, outcome)]
        /\ UNCHANGED <<pc_tool, non_tl_vars>>

ScraperBackoffEnds ==
    /\ retry.kind = "scraper"
    /\ retry.pc = "sleeping"
    /\ retry' = [retry EXCEPT !.pc = "attempting", !.sleeps = @ + 1, !.tries = @ + 1]
    /\ UNCHANGED <<pc_tool, non_tl_vars>>

\* _run_with_retry: the awaited flow.run ends.  A state is returned; a timeout
\* or a RunnerRetryableError is kept and retried while attempt <= max_retries;
\* any other exception leaves the loop; after the loop the kept exception is
\* raised.
\* _search_with_retry: the awaited post ends.  Parsed JSON is returned; an
\* HTTP error status, an httpx timeout or request error is kept as last_error
\* and the loop goes on while attempt <= max_retries; a body that does not
\* parse, or any other exception, reaches a handler that reads the unbound
\* name exc.
WebSearchAttemptEnds ==
    \E outcome \in {"json", "http_status_401", "RequestError", "parse_error"} :
        /\ retry.kind = "web_search"
        /\ retry.pc = "attempting"
        /\ retry' =
             IF outcome = "json"
             THEN [retry EXCEPT !.pc = "ended", !.outcome = "result"]
             ELSE IF outcome \in {"http_status_401", "RequestError"}
             THEN IF retry.attempt + 1 > retry.max_retries
                  THEN [retry EXCEPT !.attempt = @ + 1, !.last_error = outcome,
                                     !.seen = Append(@, outcome), !.pc = "ended",
                                     !.outcome = "failure_result"]
                  ELSE [retry EXCEPT !.attempt = @ + 1, !.last_error = outcome,
                                     !.seen = Append(@, outcome), !.pc = "sleeping"]
             ELSE [retry EXCEPT !.pc = "ended", !.outcome = "raised",
                                !.raised = "UnboundLocalError", !.seen = Append(@, outcome)]
        /\ UNCHANGED <<pc_tool, non_tl_vars>>

WebSearchBackoffEnds ==
    /\ retry.kind = "web_search"
    /\ retry.pc = "sleeping"
    /\ retry' = [retry EXCEPT !.pc = "attempting", !.sleeps = @ + 1, !.tries = @ + 1]
    /\ UNCHANGED <<pc_tool, non_tl_vars>>

RunnerAttemptEnds ==
    \E outcome \in {"state", "TimeoutError", "RunnerRetryableError", "ValueError"} :
        /\ retry.kind = "runner"
        /\ retry.pc = "attempting"
        /\ retry' =
             IF outcome = "state"
             THEN [retry EXCEPT !.pc = "ended", !.outcome = "result"]
             ELSE IF outcome = "ValueError" \/ retry.attempt > retry.max_retries
             THEN [retry EXCEPT !.last_error = outcome, !.seen = Append(@, outcome), !.pc = "ended",
                                !.outcome = "raised", !.raised = outcome]
             ELSE [retry EXCEPT !.last_error = outcome, !.seen = Append(@, outcome), !.pc = "sleeping"]
        /\ UNCHANGED <<pc_tool, non_tl_vars>>

RunnerBackoffEnds ==
    /\ retry.kind = "runner"
    /\ retry.pc = "sleeping"
    /\ retry' = [retry EXCEPT !.pc = "attempting", !.attempt = @ + 1,
                              !.sleeps = @ + 1, !.tries = @ + 1]
    /\ UNCHANGED <<pc_tool, non_tl_vars>>

ToolsIdle ==
    /\ pc_tool = NewTool(0, 1, 0)
    /\ retry = NoRetry

\* ---- the flow's inputs
FlowAlphabet ==
    {Think, Step("tool", "price_compare"), Step("decide", "decision_score"),
     Step("explain", NoneVal), Finalize}

\* Planner.plan either raises or returns steps that end with finalize.
FlowPlans ==
    {[status |-> "raised", error |-> "AttributeError", steps |-> <<>>]}
    \cup {[status |-> "returned", error |-> NoneVal, steps |-> Append(q, Finalize)] :
            q \in SeqsUpTo(FlowAlphabet, MaxFlowPlan)}

FlowFacts ==
    {EmptyMap, [k \in {"offers"} |-> "found"], [k \in FactKeys |-> "found"]}

\* The per-request context the front door hands to the flow: the caller's
\* headers, each possibly missing.
FlowContexts ==
    {NoCtx, [org_id |-> "org_x", user_id |-> "u1", role |-> "viewer"]}

NewFlow(planned, max_steps, ctx) ==
    [pc |-> "created", plan |-> planned, max_steps |-> max_steps, ctx |-> ctx,
     nodes |-> <<>>, i |-> 0, error |-> NoneVal, out |-> NoFlowOutput]

\* ------------------------------------------------------------------ OrchestratorService
\* No response yet.
NoResponse ==
    [offers |-> NoneVal, scoring |-> NoneVal, explanation |-> NoneVal, error |-> NoneVal,
     halted |-> FALSE, halt_reason |-> NoneVal, present |-> FALSE]

\* Faulty variant: the envelope does not name the reason.
error_response_unnamed(reason) ==
    [offers |-> "empty", scoring |-> "empty", explanation |-> "empty", error |-> NoneVal,
     halted |-> FALSE, halt_reason |-> NoneVal, present |-> TRUE]

\* _error_response without extra, and with the extra of the short-query case,
\* which repeats the defaults: empty offers, _empty_scoring(), an explanation that
\* carries only the reason, metadata.error = reason.
error_response(reason) ==
    [offers |-> "empty", scoring |-> "empty", explanation |-> reason, error |-> reason,
     halted |-> FALSE, halt_reason |-> NoneVal, present |-> TRUE]

\* The flow's result with the orchestrator's metadata attached.
flow_response(out) ==
    [offers |-> out.body.offers, scoring |-> out.body.scoring,
     explanation |-> out.body.explanation, error |-> out.metadata.error,
     halted |-> out.metadata.halted, halt_reason |-> out.metadata.halt_reason,
     present |-> TRUE]

\* A query is a sequence of characters; None counts as the empty one.
Queries == {<<>>, <<" ">>, <<"a">>, <<" ", "a", " ">>, <<"a", "b">>, <<" ", "a", "b">>}

\* str.strip()
RECURSIVE lstrip(_)
lstrip(q) == IF q # <<>> /\ Head(q) = " " THEN lstrip(Tail(q)) ELSE q

RECURSIVE rstrip(_)
rstrip(q) == IF q # <<>> /\ q[Len(q)] = " " THEN rstrip(SubSeq(q, 1, Len(q) - 1)) ELSE q

strip(q) == rstrip(lstrip(q))

\* Faulty variant: every query is let through.
query_too_short_never(query) == FALSE

\* q = (query or "").strip(); len(q) < 2
query_too_short(query) == Len(strip(query)) < 2

NewOrch(query, planned, ctx) ==
    [pc |-> "called", query |-> query, query_short |-> query_too_short(query),
     plan |-> planned, ctx |-> ctx, response |-> NoResponse]

NoOrch ==
    [NewOrch(<<>>, [status |-> "raised", error |-> "AttributeError", steps |-> <<>>], NoCtx)
       EXCEPT !.pc = "none"]

\* run_smart_buyer up to the wait_for: a query shorter than two characters is
\* answered at once; otherwise a fresh state with the service's token budget and
\* a flow with the service's max_steps are built.
OrchStart ==
    /\ orch.pc = "called"
    /\ IF orch.query_short
       THEN /\ orch' = [orch EXCEPT !.pc = "responded",
                                    !.response = error_response("query too short")]
            /\ UNCHANGED fl_vars
       ELSE /\ orch' = [orch EXCEPT !.pc = "waiting"]
            /\ state' = NewAgentState(TokenBudget, 0, EmptyMap)
            /\ flow' = NewFlow(orch.plan, DefaultMaxSteps, orch.ctx)
    /\ UNCHANGED <<cp_vars, pl_vars, tl_vars, ex_vars>>

\* The places where the coroutine of flow.run can be suspended when the timer of
\* a wait_for fires: before its first step and inside the planner's completion
\* call (nothing built yet), and at the inner wait_for before _run_inner has
\* started.  _run_inner itself has no suspension point: a node with a cost
\* fails before its first await and FinalizeNode awaits nothing.
Suspended ==
    \/ flow.pc = "created"
    \/ flow.pc = "looping" /\ flow.i = 1

\* The wait_for timer fires: the coroutine is cancelled where it is suspended
\* and the TimeoutError is answered with the error envelope.
OrchTimeout ==
    /\ orch.pc = "waiting"
    /\ Suspended
    /\ flow' = [flow EXCEPT !.pc = "cancelled"]
    /\ orch' = [orch EXCEPT !.pc = "responded", !.response = error_response("timeout")]
    /\ UNCHANGED <<state, cp_vars, pl_vars, tl_vars, ex_vars>>

\* flow.run ended: its result gets the orchestrator's metadata, its exception
\* becomes an error envelope named after the exception class.
OrchReceive ==
    /\ orch.pc = "waiting"
    /\ flow.pc \in {"returned", "raised"}
    /\ orch' = [orch EXCEPT !.pc = "responded",
                            !.response = IF flow.pc = "raised"
                                         THEN error_response(flow.error)
                                         ELSE flow_response(flow.out)]
    /\ UNCHANGED <<fl_vars, cp_vars, pl_vars, tl_vars, ex_vars>>

\* ------------------------------------------------------------------ scraper cache
\* ScraperTool._handle_one over InMemoryScraperCache.  The cache's lock is
\* never held across an await, so get and set are atomic; the only suspension
\* point of _handle_one is the fetch.  time.time() is an integer clock.
MaxClock == 3
CacheMaxTtl == 2
CacheDefaultTtl == 1
NoTtl == -1

CacheSlots == {"r1", "r2"}
CacheMethods == {"GET", "POST"}
CacheUrls == {"u1"}
CacheTtls == {NoTtl, 0, CacheMaxTtl}

_build_cache_key(req) == <<req.method, req.url>>

CacheKeys == {<<m, u>> : m \in CacheMethods, u \in CacheUrls}

NoEntry == [present |-> FALSE, expire_ts |-> 0]
NoStored == [present |-> FALSE, at |-> 0, ttl |-> 0]

IdleRequest ==
    [pc |-> "idle", method |-> "GET", url |-> "u1", use_cache |-> FALSE,
     cache_ttl_sec |-> NoTtl, ok |-> FALSE, from_cache |-> FALSE, fetched |-> FALSE]

NewCache(default_ttl, override_ttl) ==
    [pc |-> "ready",
     now |-> 0,
     default_cache_ttl_sec |-> default_ttl,
     override_ttl |-> override_ttl,
     store |-> [k \in CacheKeys |-> NoEntry],
     stored |-> [k \in CacheKeys |-> NoStored],
     reqs |-> [r \in CacheSlots |-> IdleRequest]]

\* InMemoryScraperCache.get: the entry, unless it is missing or expire_ts < now.
cache_get_no_expiry(c, key) == c.store[key].present

cache_get(c, key) ==
    c.store[key].present /\ ~(c.store[key].expire_ts < c.now)

\* The store after get: an expired entry is popped.
cache_after_get(c, key) ==
    IF c.store[key].present /\ c.store[key].expire_ts < c.now
    THEN [c.store EXCEPT ![key] = NoEntry]
    ELSE c.store

\* InMemoryScraperCache.set
cache_set(c, key, ttl_sec) ==
    [c.store EXCEPT ![key] = [present |-> TRUE, expire_ts |-> c.now + ttl_sec]]

\* ScraperTool._coerce_cache_ttl: NoTtl stands for None, in and out.
_coerce_cache_ttl(c, ttl) ==
    LET t == IF ttl = NoTtl THEN c.default_cache_ttl_sec ELSE ttl
    IN IF t = NoTtl \/ t <= 0 THEN NoTtl ELSE t

\* _handle_one up to its first suspension: a hit returns the tagged copy,
\* anything else starts _fetch_with_retry.
HandleOneBegin ==
    \E r \in CacheSlots, m \in CacheMethods, u \in CacheUrls, uc \in BOOLEAN,
       t \in CacheTtls :
        LET req == [IdleRequest EXCEPT !.method = m, !.url = u, !.use_cache = uc,
                                       !.cache_ttl_sec = IF uc THEN t ELSE NoTtl]
            key == _build_cache_key(req)
            hit == uc /\ cache_get(cache, key)
            st  == IF uc THEN cache_after_get(cache, key) ELSE cache.store
        IN
        /\ cache.pc = "ready"
        /\ cache.reqs[r].pc = "idle"
        /\ cache' = [cache EXCEPT
               !.store = st,
               !.reqs[r] = IF hit
                           THEN [req EXCEPT !.pc = "done", !.ok = TRUE, !.from_cache = TRUE,
                                            !.cache_ttl_sec = NoTtl]
                           ELSE [req EXCEPT !.pc = "fetching"]]
        /\ UNCHANGED <<non_ex_vars, gate, ctx_store, calc, fusion, toolreg>>

\* _fetch_with_retry returns; a successful result is stored under the
\* request's TTL, the run-time override or the default.
FetchEnds ==
    \E r \in CacheSlots, ok \in BOOLEAN :
        LET req == cache.reqs[r]
            key == _build_cache_key(req)
            ttl == _coerce_cache_ttl(cache,
                       IF req.cache_ttl_sec # NoTtl THEN req.cache_ttl_sec
                       ELSE cache.override_ttl)
            sets == req.use_cache /\ ok /\ ttl # NoTtl
        IN
        /\ cache.pc = "ready"
        /\ req.pc = "fetching"
        /\ cache' = [cache EXCEPT
               !.store = IF sets THEN cache_set(cache, key, ttl) ELSE @,
               !.stored[key] = IF sets
                               THEN [present |-> TRUE, at |-> cache.now, ttl |-> ttl]
                               ELSE @,
               !.reqs[r] = [req EXCEPT !.pc = "done", !.ok = ok, !.fetched = TRUE,
                                       !.cache_ttl_sec = NoTtl]]
        /\ UNCHANGED <<non_ex_vars, gate, ctx_store, calc, fusion, toolreg>>

\* The caller takes the result; the slot is free for the next request.
HandleOneReturn ==
    \E r \in CacheSlots :
        /\ cache.pc = "ready"
        /\ cache.reqs[r].pc = "done"
        /\ cache' = [cache EXCEPT !.reqs[r] = IdleRequest]
        /\ UNCHANGED <<non_ex_vars, gate, ctx_store, calc, fusion, toolreg>>

CacheTick ==
    /\ cache.pc = "ready"
    /\ cache.now < MaxClock
    /\ cache' = [cache EXCEPT !.now = @ + 1]
    /\ UNCHANGED <<non_ex_vars, gate, ctx_store, calc, fusion, toolreg>>

\* ------------------------------------------------------------------ admission gate
\* AgentRunner.run around `async with self._sema`: asyncio.Semaphore with its
\* counter and its FIFO of waiters; release hands the slot to the first waiter.
MaxConcurrent == 2

GateRuns == {"a", "b", "c"}

\* The ways _run_with_retry ends: the flow's state is returned, or last_exc is
\* raised after the last attempt timed out, after the retries of a retryable
\* error were used up, or at once for any other exception.
ExitWays == {"returned", "timeout", "retries_exhausted", "error"}

NewGate(max_concurrent) ==
    [pc |-> "ready",
     max_concurrent |-> max_concurrent,
     value |-> max_concurrent,
     waiters |-> <<>>,
     runs |-> [r \in GateRuns |-> "arriving"],
     hist |-> [r \in GateRuns |-> "none"],
     exit |-> [r \in GateRuns |-> "none"]]

\* Semaphore.locked(): no slot left, or somebody is already queued.
sema_never_locked(g) == FALSE

sema_locked(g) == g.value = 0 \/ Len(g.waiters) > 0

Without(seq, r) == SelectSeq(seq, LAMBDA x : x # r)

\* Faulty variant: the slot is not given back.
sema_release_lost(g) == g

\* Semaphore.release(): the counter goes up and the first waiter, if any,
\* takes the slot at once and is scheduled to resume.
sema_release(g) ==
    IF Len(g.waiters) > 0
    THEN [g EXCEPT !.waiters = Tail(@), !.runs[Head(g.waiters)] = "woken"]
    ELSE [g EXCEPT !.value = @ + 1]

\* A run reaches the gate: Semaphore.acquire() either takes a slot without
\* suspending or queues the run.
GateArrive ==
    \E r \in GateRuns :
        /\ gate.pc = "ready"
        /\ gate.runs[r] = "arriving"
        /\ gate' = IF sema_locked(gate)
                   THEN [gate EXCEPT !.waiters = Append(@, r), !.runs[r] = "waiting",
                                     !.hist[r] = "waited"]
                   ELSE [gate EXCEPT !.value = @ - 1, !.runs[r] = "running",
                                     !.hist[r] = "direct"]
        /\ UNCHANGED <<non_ex_vars, cache, ctx_store, calc, fusion, toolreg>>

\* A woken waiter resumes inside the gate.
GateResume ==
    \E r \in GateRuns :
        /\ gate.pc = "ready"
        /\ gate.runs[r] = "woken"
        /\ gate' = [gate EXCEPT !.runs[r] = "running"]
        /\ UNCHANGED <<non_ex_vars, cache, ctx_store, calc, fusion, toolreg>>

\* _run_with_retry returns or raises: __aexit__ releases the slot.
GateLeave ==
    \E r \in GateRuns, how \in ExitWays :
        /\ gate.pc = "ready"
        /\ gate.runs[r] = "running"
        /\ gate' = sema_release([gate EXCEPT !.runs[r] = "left", !.exit[r] = how])
        /\ UNCHANGED <<non_ex_vars, cache, ctx_store, calc, fusion, toolreg>>

\* The run's task is cancelled: a queued run leaves the queue, a woken or a
\* running one gives its slot back.
GateCancel ==
    \E r \in GateRuns :
        /\ gate.pc = "ready"
        /\ gate.runs[r] \in {"waiting", "woken", "running"}
        /\ gate' = IF gate.runs[r] = "waiting"
                   THEN [gate EXCEPT !.waiters = Without(@, r), !.runs[r] = "cancelled"]
                   ELSE sema_release([gate EXCEPT !.runs[r] = "cancelled",
                                                  !.exit[r] = "cancelled"])
        /\ UNCHANGED <<non_ex_vars, cache, ctx_store, calc, fusion, toolreg>>

\* The caller submits the next run under the same name.
GateAgain ==
    \E r \in GateRuns :
        /\ gate.pc = "ready"
        /\ gate.runs[r] \in {"left", "cancelled"}
        /\ gate' = [gate EXCEPT !.runs[r] = "arriving", !.hist[r] = "none",
                                 !.exit[r] = "none"]
        /\ UNCHANGED <<non_ex_vars, cache, ctx_store, calc, fusion, toolreg>>

\* ------------------------------------------------------------------ context store
\* JsonFileContextStore for one session id.  The steps are the file-system
\* calls of load and save; the event loop switches coroutines only where the
\* lock is awaited, so every interleaving of the code is one of these.
\* A context map has the keys k1 and k2; its JSON text is written in two
\* chunks, and a file keeps one chunk per position.
CtxOps == {"p", "q", "r"}
CtxValues == {"a", "b"}

EmptyCtx == [k1 |-> "none", k2 |-> "none"]
CtxMaps == {[k1 |-> v, k2 |-> w] : v, w \in CtxValues} \cup {EmptyCtx}
SavedMaps == {[k1 |-> v, k2 |-> v] : v \in CtxValues} \cup {EmptyCtx}

NoChunk == [part |-> 0, v |-> "none"]
NoFile == [exists |-> FALSE, c1 |-> NoChunk, c2 |-> NoChunk]
EmptyFile == [exists |-> TRUE, c1 |-> NoChunk, c2 |-> NoChunk]

\* json.dumps(context): the text, as its two chunks.
json_dumps(m) == <<[part |-> 1, v |-> m.k1], [part |-> 2, v |-> m.k2]>>

\* json.loads(data) of load, with everything it answers by the empty map: a
\* blank file, text that does not parse, a file that is gone.
json_loads(f) ==
    IF f.exists /\ f.c1.part = 1 /\ f.c2.part = 2
          /\ (f.c1.v = "none") = (f.c2.v = "none")
    THEN [k1 |-> f.c1.v, k2 |-> f.c2.v]
    ELSE EmptyCtx

IdleOp == [kind |-> "none", pc |-> "idle", context |-> EmptyCtx, result |-> EmptyCtx]

NewCtxStore ==
    [pc |-> "ready",
     lock |-> "free",
     path |-> NoFile,
     tmp_path |-> NoFile,
     saved |-> {},
     ops |-> [o \in CtxOps |-> IdleOp]]

\* asyncio.Lock.acquire() goes through only while nobody holds the lock.
lock_ignored(s) == TRUE

lock_free(s) == s.lock = "free"

\* load up to the lock: a missing file answers the empty map at once.
LoadBegin ==
    \E o \in CtxOps :
        /\ ctx_store.pc = "ready"
        /\ ctx_store.ops[o].pc = "idle"
        /\ ctx_store' = [ctx_store EXCEPT !.ops[o] =
               IF ctx_store.path.exists
               THEN [IdleOp EXCEPT !.kind = "load", !.pc = "acquire"]
               ELSE [IdleOp EXCEPT !.kind = "load", !.pc = "done"]]
        /\ UNCHANGED <<non_ex_vars, cache, gate, calc, fusion, toolreg>>

SaveBegin ==
    \E o \in CtxOps, m \in SavedMaps :
        /\ ctx_store.pc = "ready"
        /\ ctx_store.ops[o].pc = "idle"
        /\ ctx_store' = [ctx_store EXCEPT !.ops[o] =
               [IdleOp EXCEPT !.kind = "save", !.pc = "acquire", !.context = m]]
        /\ UNCHANGED <<non_ex_vars, cache, gate, calc, fusion, toolreg>>

\* async with self._lock
StoreAcquire ==
    \E o \in CtxOps :
        /\ ctx_store.pc = "ready"
        /\ ctx_store.ops[o].pc = "acquire"
        /\ lock_free(ctx_store)
        /\ ctx_store' = [ctx_store EXCEPT !.lock = o, !.ops[o].pc = "locked"]
        /\ UNCHANGED <<non_ex_vars, cache, gate, calc, fusion, toolreg>>

\* load under the lock: read_text and json.loads, then the lock is released.
LoadRead ==
    \E o \in CtxOps :
        /\ ctx_store.pc = "ready"
        /\ ctx_store.ops[o].kind = "load" /\ ctx_store.ops[o].pc = "locked"
        /\ ctx_store' = [ctx_store EXCEPT
               !.lock = IF @ = o THEN "free" ELSE @,
               !.ops[o] = [@ EXCEPT !.pc = "done", !.result = json_loads(ctx_store.path)]]
        /\ UNCHANGED <<non_ex_vars, cache, gate, calc, fusion, toolreg>>

\* save under the lock: write_text opens the temporary file, truncating it ...
SaveOpen ==
    \E o \in CtxOps :
        /\ ctx_store.pc = "ready"
        /\ ctx_store.ops[o].kind = "save" /\ ctx_store.ops[o].pc = "locked"
        /\ ctx_store' = [ctx_store EXCEPT !.tmp_path = EmptyFile, !.ops[o].pc = "write1"]
        /\ UNCHANGED <<non_ex_vars, cache, gate, calc, fusion, toolreg>>

\* ... and writes the text, one chunk at its position after the other.
SaveWrite ==
    \E o \in CtxOps :
        LET op == ctx_store.ops[o]
            text == json_dumps(op.context)
        IN
        /\ ctx_store.pc = "ready"
        /\ op.kind = "save" /\ op.pc \in {"write1", "write2"}
        /\ ctx_store' = [ctx_store EXCEPT
               !.tmp_path = IF op.pc = "write1"
                            THEN [@ EXCEPT !.exists = TRUE, !.c1 = text[1]]
                            ELSE [@ EXCEPT !.exists = TRUE, !.c2 = text[2]],
               !.ops[o].pc = IF op.pc = "write1" THEN "write2" ELSE "replace"]
        /\ UNCHANGED <<non_ex_vars, cache, gate, calc, fusion, toolreg>>

\* tmp_path.replace(path): the rename, then the lock is released.
SaveReplace ==
    \E o \in CtxOps :
        /\ ctx_store.pc = "ready"
        /\ ctx_store.ops[o].kind = "save" /\ ctx_store.ops[o].pc = "replace"
        /\ ctx_store.tmp_path.exists
        /\ ctx_store' = [ctx_store EXCEPT
               !.path = ctx_store.tmp_path,
               !.tmp_path = NoFile,
               !.lock = IF @ = o THEN "free" ELSE @,
               !.saved = @ \cup {ctx_store.ops[o].context},
               !.ops[o].pc = "done"]
        /\ UNCHANGED <<non_ex_vars, cache, gate, calc, fusion, toolreg>>

\* An OSError of the write or of the rename is logged and swallowed; the
\* session's file is left as it was.
SaveFails ==
    \E o \in CtxOps :
        /\ ctx_store.pc = "ready"
        /\ ctx_store.ops[o].kind = "save"
        /\ ctx_store.ops[o].pc \in {"locked", "write1", "write2", "replace"}
        /\ ctx_store' = [ctx_store EXCEPT
               !.lock = IF @ = o THEN "free" ELSE @,
               !.ops[o].pc = "failed"]
        /\ UNCHANGED <<non_ex_vars, cache, gate, calc, fusion, toolreg>>

\* The caller has the answer; the coroutine is gone.
StoreReturn ==
    \E o \in CtxOps :
        /\ ctx_store.pc = "ready"
        /\ ctx_store.ops[o].pc \in {"done", "failed"}
        /\ ctx_store' = [ctx_store EXCEPT !.ops[o] = IdleOp]
        /\ UNCHANGED <<non_ex_vars, cache, gate, calc, fusion, toolreg>>

\* ------------------------------------------------------------------ offer fusion
\* PriceCompareEngine.compare: the fan-out to the site adapters, then
\* _fuse_duplicates, the final sort and the cut to top_k.  A provider's answer
\* is given as the offers _normalize_offer makes of it; the fields fusion and
\* the sort do not read (title, url, warranty, attributes) are left out.
MaxTopK == 3
TopKLo == 1
TopKHi == 50

Sites == {"shopee", "lazada", "tiki"}
Adapters == {"shopee", "lazada"}
CanonKeys == {"k1", "K1", "k2", "k3"}
Prices == {1, 2}
Ratings == {1, 2}

\* _norm: the canonical key, lower-cased.
_norm(v) == IF v = "K1" THEN "k1" ELSE v

\* _clamp_int(v, lo, hi)
_clamp_int(v, lo, hi) ==
    LET upper == IF hi < v THEN hi ELSE v
    IN IF lo > upper THEN lo ELSE upper

OffersOf(site) ==
    {[site |-> site, canonical |-> c, effective_price |-> p, seller_rating |-> r,
      in_stock |-> s, sources |-> {}] :
        c \in CanonKeys, p \in Prices, r \in Ratings, s \in BOOLEAN}

\* What an adapter may answer: shopee up to two listings, lazada up to one.
AnswersOf(site) ==
    {<<>>} \cup {<<o>> : o \in OffersOf(site)}
           \cup (IF site = "shopee"
                 THEN {<<o, q>> : o \in OffersOf(site),
                           q \in {x \in OffersOf(site) : x.seller_rating = 1 /\ x.in_stock}}
                 ELSE {})

\* Faulty variant: the final sort forgets the stock flag.
sort_key_no_stock(o, final) == <<0, o.effective_price, 0 - o.seller_rating>>

\* The key of sorted(group, ...) in _fuse_duplicates and of the final sort.
sort_key(o, final) ==
    <<IF final /\ ~o.in_stock THEN 1 ELSE 0, o.effective_price, 0 - o.seller_rating>>

KeyLess(a, b) ==
    \/ a[1] < b[1]
    \/ a[1] = b[1] /\ a[2] < b[2]
    \/ a[1] = b[1] /\ a[2] = b[2] /\ a[3] < b[3]

\* list.sort / sorted: stable, ascending in the key.
RECURSIVE InsertOffer(_, _, _)
InsertOffer(o, sorted, final) ==
    IF sorted = <<>> THEN <<o>>
    ELSE IF KeyLess(sort_key(o, final), sort_key(Head(sorted), final))
         THEN <<o>> \o sorted
         ELSE <<Head(sorted)>> \o InsertOffer(o, Tail(sorted), final)

RECURSIVE SortOffers(_, _)
SortOffers(offers, final) ==
    IF offers = <<>> THEN <<>>
    ELSE InsertOffer(offers[Len(offers)],
                     SortOffers(SubSeq(offers, 1, Len(offers) - 1), final), final)

\* The keys of the buckets dict, in insertion order.
RECURSIVE BucketKeys(_)
BucketKeys(offers) ==
    IF offers = <<>> THEN <<>>
    ELSE LET before == BucketKeys(SubSeq(offers, 1, Len(offers) - 1))
             key == _norm(offers[Len(offers)].canonical)
         IN IF \E i \in 1 .. Len(before) : before[i] = key THEN before
            ELSE Append(before, key)

MaxRating(group) ==
    CHOOSE r \in {group[i].seller_rating : i \in 1 .. Len(group)} :
        \A i \in 1 .. Len(group) : group[i].seller_rating <= r

\* One bucket of _fuse_duplicates: the best member, widened.
merge_group(group) ==
    [SortOffers(group, FALSE)[1] EXCEPT
        !.seller_rating = MaxRating(group),
        !.sources = {group[i].site : i \in 1 .. Len(group)}]

_fuse_duplicates(offers) ==
    LET keys == BucketKeys(offers)
    IN [i \in 1 .. Len(keys) |->
           merge_group(SelectSeq(offers, LAMBDA o : _norm(o.canonical) = keys[i]))]

\* _run_site's entry in errors for the way the provider call ended.
site_error_unrecorded(outcome) == "none"

site_error(outcome) ==
    CASE outcome = "answered" -> "none"
      [] outcome = "timeout" -> "timeout"
      [] outcome = "raised" -> "RuntimeError: boom"
      [] OTHER -> "no-adapter"

RECURSIVE RawOffers(_, _)
RawOffers(order, results) ==
    IF order = <<>> THEN <<>>
    ELSE results[Head(order)] \o RawOffers(Tail(order), results)

NewFusion(top_k, sites) ==
    [pc |-> "gather",
     top_k |-> top_k,
     k |-> _clamp_int(top_k, TopKLo, TopKHi),
     sites |-> sites,
     outcome |-> [s \in sites |-> "pending"],
     order |-> <<>>,
     results |-> [s \in sites |-> <<>>],
     errors |-> [s \in sites |-> "none"],
     fused |-> <<>>,
     offers |-> <<>>,
     refused |-> <<>>]

\* One _run_site coroutine ends: the adapter answered, ran into the per-site
\* timeout or raised, or the site has no adapter.
RunSiteEnds ==
    \E s \in Sites, outcome \in {"answered", "timeout", "raised", "no-adapter"} :
        /\ fusion.pc = "gather"
        /\ s \in fusion.sites
        /\ fusion.outcome[s] = "pending"
        /\ (outcome = "no-adapter") = (s \notin Adapters)
        /\ \E res \in (IF outcome = "answered" THEN AnswersOf(s) ELSE {<<>>}) :
              fusion' = [fusion EXCEPT
                  !.outcome[s] = outcome,
                  !.order = Append(@, s),
                  !.results[s] = res,
                  !.errors[s] = site_error(outcome)]
        /\ UNCHANGED <<non_ex_vars, cache, gate, ctx_store, calc, toolreg>>

\* gather is through: fuse, sort, cut to k, return.
CompareReturns ==
    /\ fusion.pc = "gather"
    /\ \A s \in fusion.sites : fusion.outcome[s] # "pending"
    /\ LET fused == _fuse_duplicates(RawOffers(fusion.order, fusion.results))
       IN fusion' = [fusion EXCEPT
              !.pc = "returned",
              !.fused = fused,
              !.offers = Take(SortOffers(fused, TRUE), fusion.k)]
    /\ UNCHANGED <<non_ex_vars, cache, gate, ctx_store, calc, toolreg>>

\* _fuse_duplicates applied to its own output.
FuseAgain ==
    /\ fusion.pc = "returned"
    /\ fusion' = [fusion EXCEPT !.pc = "refused", !.refused = _fuse_duplicates(fusion.fused)]
    /\ UNCHANGED <<non_ex_vars, cache, gate, ctx_store, calc, toolreg>>

\* ------------------------------------------------------------------ decision scoring
\* Scoring, DecisionTool and the profile's weight normalisation.  Weights are
\* counted in thousandths, raw and normalised values in hundredths; a weight
\* the code divides by a total is kept as the pair of numerator and total.
CriterionNames == <<"price", "rating">>
WeightSets == {<<0, 0>>, <<500, 495>>, <<500, 500>>, <<2000, 1000>>, <<300, 0>>}
RawValues == {0 - 100, 50, 200}

CriteriaSets ==
    {[i \in 1 .. 2 |-> [name |-> CriterionNames[i], weight |-> ws[i], maximize |-> mx[i]]] :
        ws \in WeightSets, mx \in {<<FALSE, TRUE>>, <<FALSE, FALSE>>, <<TRUE, TRUE>>}}

\* An option: its values, and the criteria it has a value for.
ScoreOptionsPool ==
    {[price |-> p, rating |-> r, known |-> {"price", "rating"}] : p, r \in RawValues}
        \cup {[price |-> p, rating |-> 0, known |-> {"price"}] : p \in RawValues}

OptionLists == {<<a, b, c>> : a, b, c \in ScoreOptionsPool}

RECURSIVE SumSeq(_)
SumSeq(s) == IF s = <<>> THEN 0 ELSE Head(s) + SumSeq(Tail(s))

WeightsOf(criteria) == [i \in 1 .. Len(criteria) |-> criteria[i].weight]

\* Scoring._validate_criteria: the weights are divided by their total unless
\* the total lies in 0.99 .. 1.01.
_validate_criteria(criteria) ==
    LET total == SumSeq(WeightsOf(criteria))
    IN IF 990 <= total /\ total <= 1010
       THEN [error |-> "none", weights |-> WeightsOf(criteria), den |-> 1000]
       ELSE IF total = 0
            THEN [error |-> "ZeroDivisionError", weights |-> WeightsOf(criteria), den |-> 1000]
            ELSE [error |-> "none", weights |-> WeightsOf(criteria), den |-> total]

\* profiles.smart_buyer_profile._normalize_weights: uniform when the total is
\* (next to) zero, else every weight times 1 / total.
_normalize_weights(criteria) ==
    LET total == SumSeq(WeightsOf(criteria))
    IN IF total <= 0
       THEN [error |-> "none", weights |-> [i \in 1 .. Len(criteria) |-> 1],
             den |-> IF Len(criteria) < 1 THEN 1 ELSE Len(criteria)]
       ELSE [error |-> "none", weights |-> WeightsOf(criteria), den |-> total]

\* Scoring._normalize_value
_normalize_value(value) ==
    IF value < 0 THEN 0
    ELSE IF value > 100
         THEN (IF value \div 100 < 100 THEN value \div 100 ELSE 100)
         ELSE value

\* option.get(criterion.name, 0)
RawValue(option, name) ==
    IF name \notin option.known THEN 0
    ELSE IF name = "price" THEN option.price ELSE option.rating

\* Scoring.score_option for one criterion: normalise, invert when minimising.
normalized_value(option, criterion) ==
    LET value == _normalize_value(RawValue(option, criterion.name))
    IN IF criterion.maximize THEN value ELSE 100 - value

\* Scoring.score_option: the total, as its numerator over the weights' total.
total_score(option, criteria) ==
    SumSeq([i \in 1 .. Len(criteria) |->
               normalized_value(option, criteria[i]) * criteria[i].weight])

\* Scoring.score_options, rank 1: the stable descending sort puts the first
\* of the best-scored candidates on top.
score_options_best(options, candidates, criteria) ==
    CHOOSE i \in candidates :
        /\ \A j \in candidates : total_score(options[j], criteria) <= total_score(options[i], criteria)
        /\ \A j \in candidates :
              total_score(options[j], criteria) = total_score(options[i], criteria) => i <= j

\* _pareto_filter.dominates; a value missing on either side is skipped.
dominates(options, criteria, i, j) ==
    LET both == {k \in 1 .. Len(criteria) :
                    criteria[k].name \in options[i].known \cap options[j].known}
        vi(k) == RawValue(options[i], criteria[k].name)
        vj(k) == RawValue(options[j], criteria[k].name)
        better(k) == IF criteria[k].maximize THEN vi(k) > vj(k) ELSE vi(k) < vj(k)
        worse(k) == IF criteria[k].maximize THEN vi(k) < vj(k) ELSE vi(k) > vj(k)
    IN (\A k \in both : ~worse(k)) /\ (\E k \in both : better(k))

\* The keep loop of _pareto_filter: an option still kept strikes out the
\* kept options it dominates.
RECURSIVE pareto_pass(_, _, _, _)
pareto_pass(options, criteria, keep, i) ==
    IF i > Len(options) THEN keep
    ELSE IF i \notin keep THEN pareto_pass(options, criteria, keep, i + 1)
    ELSE pareto_pass(options, criteria,
                     keep \ {j \in keep : j # i /\ dominates(options, criteria, i, j)}, i + 1)

_pareto_filter(options, criteria) ==
    IF Len(options) <= 2 \/ Len(criteria) = 0 THEN 1 .. Len(options)
    ELSE pareto_pass(options, criteria, 1 .. Len(options), 1)

NoWeights == [error |-> "unset", weights |-> <<>>, den |-> 1]

NewCalc(criteria, options) ==
    [kind |-> "decision",
     pc |-> "input",
     criteria |-> criteria,
     options |-> options,
     used |-> NoWeights,
     kept |-> {},
     scores |-> <<>>,
     best |-> 0,
     best_pareto |-> 0,
     error |-> "none"]

\* Scoring(criteria)
ValidateCriteria ==
    /\ calc.kind = "decision" /\ calc.pc = "input"
    /\ calc' = [calc EXCEPT !.pc = "validated", !.used = _validate_criteria(calc.criteria),
                            !.error = _validate_criteria(calc.criteria).error]
    /\ UNCHANGED <<non_ex_vars, cache, gate, ctx_store, fusion, toolreg>>

\* SmartBuyerProfile's criteria, after its final normalisation.
ProfileNormalize ==
    /\ calc.kind = "decision" /\ calc.pc = "input"
    /\ calc' = [calc EXCEPT !.pc = "profiled", !.used = _normalize_weights(calc.criteria)]
    /\ UNCHANGED <<non_ex_vars, cache, gate, ctx_store, fusion, toolreg>>

\* Scoring.score_options over all options.
ScoreOptions ==
    /\ calc.kind = "decision" /\ calc.pc = "validated" /\ calc.error = "none"
    /\ calc' = [calc EXCEPT
           !.pc = "scored",
           !.kept = 1 .. Len(calc.options),
           !.scores = [i \in 1 .. Len(calc.options) |->
                          [k \in 1 .. Len(calc.criteria) |->
                              normalized_value(calc.options[i], calc.criteria[k])]],
           !.best = score_options_best(calc.options, 1 .. Len(calc.options), calc.criteria)]
    /\ UNCHANGED <<non_ex_vars, cache, gate, ctx_store, fusion, toolreg>>

\* _pareto_filter, then Scoring.score_options over what it kept.
ParetoScore ==
    /\ calc.kind = "decision" /\ calc.pc = "scored"
    /\ LET keep == _pareto_filter(calc.options, calc.criteria)
       IN calc' = [calc EXCEPT
              !.pc = "filtered",
              !.kept = keep,
              !.best_pareto = score_options_best(calc.options, keep, calc.criteria)]
    /\ UNCHANGED <<non_ex_vars, cache, gate, ctx_store, fusion, toolreg>>

\* DecisionTool.call(playload): its first statement reads the unbound name
\* payload.
DecisionCall ==
    /\ calc.kind = "decision" /\ calc.pc = "input"
    /\ calc' = [calc EXCEPT !.pc = "raised", !.error = "NameError"]
    /\ UNCHANGED <<non_ex_vars, cache, gate, ctx_store, fusion, toolreg>>

\* ------------------------------------------------------------------ tool registries
\* The three ToolRegistry classes: control_plane.core (register(spec), keyed by
\* spec.name), tools.registry and control_plane.tool_registry (register(name,
\* tool, overwrite=True)).  A tool is named by its handler; "bad" has no
\* callable call attribute; the name "" is the empty string.
RegistryClasses == {"control_plane.core", "tools.registry", "control_plane.tool_registry"}
RegNames == {"a", "b"}
RegTools == {"h1", "h2", "bad"}

NoRegister == [name |-> "", tool |-> "none", overwrite |-> TRUE, error |-> "none", done |-> FALSE]

NewToolReg(class) ==
    [pc |-> "ready",
     class |-> class,
     tools |-> [n \in RegNames |-> "none"],
     before |-> [n \in RegNames |-> "none"],
     last |-> NoRegister]

\* control_plane.core.ToolRegistry.register(spec)
core_register(tools, name, tool) ==
    IF name \in RegNames /\ tools[name] # "none"
    THEN [error |-> "ValueError", tools |-> tools]
    ELSE [error |-> "none",
          tools |-> [n \in RegNames |-> IF n = name THEN tool ELSE tools[n]]]

\* tools.registry.ToolRegistry.register and
\* control_plane.tool_registry.ToolRegistry.register, which read the same.
named_register(tools, name, tool, overwrite) ==
    IF name = "" THEN [error |-> "InvalidToolError", tools |-> tools]
    ELSE IF tool = "bad" THEN [error |-> "InvalidToolError", tools |-> tools]
    ELSE IF ~overwrite /\ tools[name] # "none"
         THEN [error |-> "InvalidToolError", tools |-> tools]
         ELSE [error |-> "none",
               tools |-> [n \in RegNames |-> IF n = name THEN tool ELSE tools[n]]]

\* One register call; the control plane's registry takes a spec, whose name
\* is never empty here, the other two take the overwrite flag, TRUE by default.
Register ==
    \E name \in RegNames \cup {""}, tool \in RegTools, overwrite \in BOOLEAN :
        LET core == toolreg.class = "control_plane.core"
            res == IF core THEN core_register(toolreg.tools, name, tool)
                   ELSE named_register(toolreg.tools, name, tool, overwrite)
        IN
        /\ toolreg.pc = "ready"
        /\ core => (name # "" /\ overwrite)
        /\ toolreg' = [toolreg EXCEPT
               !.before = toolreg.tools,
               !.tools = res.tools,
               !.last = [name |-> name, tool |-> tool, overwrite |-> overwrite,
                         error |-> res.error, done |-> TRUE]]
        /\ UNCHANGED <<non_ex_vars, cache, gate, ctx_store, calc, fusion>>

\* unregister(name) of the two name-keyed registries.
Unregister ==
    \E name \in RegNames :
        /\ toolreg.pc = "ready"
        /\ toolreg.class # "control_plane.core"
        /\ toolreg' = [toolreg EXCEPT
               !.before = toolreg.tools,
               !.tools = [n \in RegNames |-> IF n = name THEN "none" ELSE toolreg.tools[n]],
               !.last = NoRegister]
        /\ UNCHANGED <<non_ex_vars, cache, gate, ctx_store, calc, fusion>>

NoCache == [pc |-> "none"]
NoGate == [pc |-> "none"]
NoCtxStore == [pc |-> "none"]
NoCalc == [kind |-> "none"]
NoFusion == [pc |-> "none"]
NoToolReg == [pc |-> "none"]

\* ------------------------------------------------------------------ idle parts
CacheIdle == cache = NoCache
GateIdle == gate = NoGate
CtxStoreIdle == ctx_store = NoCtxStore
CalcIdle == calc = NoCalc
FusionIdle == fusion = NoFusion
ToolRegIdle == toolreg = NoToolReg

ExtrasIdle == CacheIdle /\ GateIdle /\ CtxStoreIdle /\ CalcIdle /\ FusionIdle
              /\ ToolRegIdle

RunIdle ==
    /\ orch = NoOrch
    /\ state = NewAgentState(0, 0, EmptyMap)
    /\ flow = [NewFlow([status |-> "raised", error |-> "AttributeError", steps |-> <<>>],
                       DefaultMaxSteps, NoCtx) EXCEPT !.pc = "none"]

FlowIdle ==
    /\ RunIdle
    /\ ToolsIdle
    /\ ExtrasIdle

\* ------------------------------------------------------------------ the front door
\* smart_buyer's status for the metadata of a result: the halt reason, or else
\* the error, looked up in status_map with 400 as the default; 200 without
\* either.
front_door_status(metadata) ==
    LET halt_reason == IF metadata.halt_reason # NoneVal THEN metadata.halt_reason
                       ELSE metadata.error
    IN  IF halt_reason = NoneVal THEN 200
        ELSE CASE halt_reason = "quota_exceeded" -> 429
               [] halt_reason = "tool_blocked" -> 403
               [] halt_reason = "skill_not_allowed" -> 403
               [] halt_reason = "tool_error" -> 502
               [] OTHER -> 400

\* ------------------------------------------------------------------ the state's writers
\* AgentState.use_tokens called by a node's token accounting.
UseTokens ==
    /\ ~state.halted
    /\ state.spent_token <= TokenBudget
    /\ \E n \in 1 .. (TokenBudget + 1) : state' = use_tokens(state, n)
    /\ UNCHANGED <<flow, non_fl_vars>>

\* A guard of the flow's loop halts the run.
GuardHalt ==
    /\ ~state.halted
    /\ \E g \in {<<"max_steps_exceeded", "max_steps_exceeded">>,
                 <<"token_budget_exceeded", "budget_exceeded">>} :
         state' = halt(state, g[1], PartialOutput(state, g[2]))
    /\ UNCHANGED <<flow, non_fl_vars>>

\* PriceCompareNode._run with a control plane, for a query of two characters
\* or more: one execute call under the caller's context, then the facts or the
\* halt.
PriceCompareLogic ==
    /\ ~state.halted
    /\ ncalls < MaxCalls
    /\ \E c \in FlowContexts, hx \in {NoneVal} \cup HandlerErrors, ov \in BOOLEAN :
         LET r == execute_result(store, usage, registry,
                                 [action |-> "price_compare", params_valid |-> TRUE],
                                 build_request_context(c), day, hx, ov)
         IN  /\ state' = price_compare_run(state, r.result)
             /\ store' = r.store
             /\ usage' = r.usage
             /\ last_result' = r.result
             /\ ncalls' = ncalls + 1
    /\ UNCHANGED <<registry, day, inflight, passed, flow, pl_vars, or_vars, tl_vars,
                   ex_vars>>

\* ------------------------------------------------------------------ specifications
\* The control plane as bootstrap builds it, before any call.
ControlPlaneIdle ==
    /\ store = BootstrapStore(NoQuotas)
    /\ registry = BootstrapRegistry
    /\ usage = EmptyMap
    /\ day = 0
    /\ inflight = [c \in Slots |-> Idle]
    /\ ncalls = 0
    /\ last_result = NoResult
    /\ passed = EmptyMap

\* Concurrent execute calls against the bootstrap policy store.
Init ==
    /\ store \in {BootstrapStore(q) : q \in QuotaChoices}
    /\ registry = BootstrapRegistry
    /\ usage = EmptyMap
    /\ day = 0
    /\ inflight = [c \in Slots |-> Idle]
    /\ ncalls = 0
    /\ last_result = NoResult
    /\ passed = EmptyMap
    /\ PlannerIdle
    /\ FlowIdle

Next == Begin \/ Finish \/ Cancel \/ Tick

Spec == Init /\ [][Next]_vars

\* Single execute calls against every policy configuration.
InitPolicy ==
    /\ store \in PolicyStores
    /\ registry = RegistryWithAdmin
    /\ usage = EmptyMap
    /\ day = 0
    /\ inflight = [c \in Slots |-> Idle]
    /\ ncalls = 0
    /\ last_result = NoResult
    /\ passed = EmptyMap
    /\ PlannerIdle
    /\ FlowIdle

NextPolicy == PolicyBegin \/ PolicyFinish

SpecPolicy == InitPolicy /\ [][NextPolicy]_vars

\* One Planner.plan call on every input.
InitPlanner ==
    /\ ControlPlaneIdle
    /\ pl_in \in [cfg : PlannerConfigs, profile : Profiles, tools : PlannerRegistries,
                  completion : Completions]
    /\ pl_out = NoPlan
    /\ FlowIdle

NextPlanner == PlanCall

SpecPlanner == InitPlanner /\ [][NextPlanner]_vars

\* One SmartBuyerFlow.run call on every plan, budget and set of facts.
InitFlow ==
    /\ ControlPlaneIdle
    /\ PlannerIdle
    /\ orch = NoOrch
    /\ ToolsIdle
    /\ ExtrasIdle
    /\ state \in {NewAgentState(b, sp, f) :
                    b \in {0, TokenBudget}, sp \in {0, TokenBudget, TokenBudget + 1},
                    f \in FlowFacts}
    /\ flow \in {NewFlow(p, m, c) : p \in FlowPlans, m \in {FlowMaxSteps, DefaultMaxSteps},
                                     c \in FlowContexts}

NextFlow == FlowRun \/ FlowLoop

SpecFlow == InitFlow /\ [][NextFlow]_vars

\* One run_smart_buyer call on every query, planner outcome and caller context.
InitOrch ==
    /\ ControlPlaneIdle
    /\ PlannerIdle
    /\ ToolsIdle
    /\ ExtrasIdle
    /\ state = NewAgentState(0, 0, EmptyMap)
    /\ flow = [NewFlow([status |-> "raised", error |-> "AttributeError", steps |-> <<>>],
                       DefaultMaxSteps, NoCtx) EXCEPT !.pc = "none"]
    /\ orch \in {NewOrch(q, p, c) : q \in Queries, p \in FlowPlans, c \in FlowContexts}

NextOrch == OrchStart \/ FlowRun \/ FlowLoop \/ OrchTimeout \/ OrchReceive

SpecOrch == InitOrch /\ [][NextOrch]_vars

\* The writers of one AgentState, in any order, against the bootstrap control
\* plane with and without quotas.
InitNode ==
    /\ store \in {BootstrapStore(q) : q \in QuotaChoices}
    /\ registry = BootstrapRegistry
    /\ usage = EmptyMap
    /\ day = 0
    /\ inflight = [c \in Slots |-> Idle]
    /\ ncalls = 0
    /\ last_result = NoResult
    /\ passed = EmptyMap
    /\ PlannerIdle
    /\ ToolsIdle
    /\ ExtrasIdle
    /\ orch = NoOrch
    /\ flow = [NewFlow([status |-> "raised", error |-> "AttributeError", steps |-> <<>>],
                       DefaultMaxSteps, NoCtx) EXCEPT !.pc = "none"]
    /\ state \in {NewAgentState(b, 0, f) : b \in {0, TokenBudget}, f \in FlowFacts}

NextNode == UseTokens \/ GuardHalt \/ PriceCompareLogic

SpecNode == InitNode /\ [][NextNode]_vars

\* Calls of one PriceCompareTool, two at a time, while the clock runs.
ToolConfigs ==
    {NewTool(mr, th, CbCooldown) : mr \in 0 .. ToolMaxRetries, th \in 1 .. CbThreshold}

InitTool ==
    /\ ControlPlaneIdle
    /\ PlannerIdle
    /\ RunIdle
    /\ ExtrasIdle
    /\ pc_tool \in ToolConfigs
    /\ retry = NoRetry

NextTool == ToolCall \/ ToolAttemptEnds \/ ToolBackoffEnds \/ ToolTick

SpecTool == InitTool /\ [][NextTool]_vars

\* One scraper fetch, one web search or one runner run, for every max_retries.
InitRetry ==
    /\ ControlPlaneIdle
    /\ PlannerIdle
    /\ RunIdle
    /\ ExtrasIdle
    /\ pc_tool = NewTool(0, 1, 0)
    /\ retry \in {NewRetry(k, mr) : k \in {"scraper", "web_search", "runner"},
                                       mr \in 0 .. MaxRetries}

NextRetry ==
    \/ ScraperAttemptEnds \/ ScraperBackoffEnds
    \/ WebSearchAttemptEnds \/ WebSearchBackoffEnds
    \/ RunnerAttemptEnds \/ RunnerBackoffEnds

SpecRetry == InitRetry /\ [][NextRetry]_vars

\* ------------------------------------------------------------------ cache specification
InitCache ==
    /\ ControlPlaneIdle
    /\ PlannerIdle
    /\ RunIdle
    /\ ToolRegIdle
    /\ ToolsIdle
    /\ \E d \in {0, CacheDefaultTtl}, o \in {NoTtl, CacheMaxTtl} : cache = NewCache(d, o)
    /\ GateIdle
    /\ CtxStoreIdle
    /\ CalcIdle
    /\ FusionIdle

NextCache ==
    \/ HandleOneBegin
    \/ FetchEnds
    \/ HandleOneReturn
    \/ CacheTick

SpecCache == InitCache /\ [][NextCache]_vars

InitGate ==
    /\ ControlPlaneIdle
    /\ PlannerIdle
    /\ RunIdle
    /\ ToolRegIdle
    /\ ToolsIdle
    /\ CacheIdle
    /\ \E n \in 1 .. MaxConcurrent : gate = NewGate(n)
    /\ CtxStoreIdle
    /\ CalcIdle
    /\ FusionIdle

NextGate ==
    \/ GateArrive
    \/ GateResume
    \/ GateLeave
    \/ GateCancel
    \/ GateAgain

SpecGate == InitGate /\ [][NextGate]_vars

\* The gate with the scheduling the event loop gives: a woken waiter is resumed,
\* and every run inside the gate ends (its attempts are bounded and each is cut
\* off by wait_for).  Arrivals and cancellations may or may not happen.
GateFairness ==
    \A r \in GateRuns :
        /\ WF_vars(GateResume /\ gate.runs[r] = "woken" /\ gate'.runs[r] = "running")
        /\ WF_vars(GateLeave /\ gate.runs[r] = "running" /\ gate'.runs[r] = "left")

SpecGateFair == InitGate /\ [][NextGate]_vars /\ GateFairness

InitStore ==
    /\ ControlPlaneIdle
    /\ PlannerIdle
    /\ RunIdle
    /\ ToolRegIdle
    /\ ToolsIdle
    /\ CacheIdle
    /\ GateIdle
    /\ ctx_store = NewCtxStore
    /\ CalcIdle
    /\ FusionIdle

NextStore ==
    \/ LoadBegin
    \/ SaveBegin
    \/ StoreAcquire
    \/ LoadRead
    \/ SaveOpen
    \/ SaveWrite
    \/ SaveReplace
    \/ SaveFails
    \/ StoreReturn

SpecStore == InitStore /\ [][NextStore]_vars

InitFusion ==
    /\ ControlPlaneIdle
    /\ PlannerIdle
    /\ RunIdle
    /\ ToolRegIdle
    /\ ToolsIdle
    /\ CacheIdle
    /\ GateIdle
    /\ CtxStoreIdle
    /\ CalcIdle
    /\ \E top_k \in 0 .. MaxTopK, sites \in {{"shopee", "lazada"}, Sites} :
          fusion = NewFusion(top_k, sites)

NextFusion ==
    \/ RunSiteEnds
    \/ CompareReturns
    \/ FuseAgain

SpecFusion == InitFusion /\ [][NextFusion]_vars

InitScore ==
    /\ ControlPlaneIdle
    /\ PlannerIdle
    /\ RunIdle
    /\ ToolRegIdle
    /\ ToolsIdle
    /\ CacheIdle
    /\ GateIdle
    /\ CtxStoreIdle
    /\ FusionIdle
    /\ \E criteria \in CriteriaSets, options \in OptionLists : calc = NewCalc(criteria, options)

NextScore ==
    \/ ValidateCriteria
    \/ ProfileNormalize
    \/ ScoreOptions
    \/ ParetoScore
    \/ DecisionCall

SpecScore == InitScore /\ [][NextScore]_vars

InitRegistry ==
    /\ ControlPlaneIdle
    /\ PlannerIdle
    /\ RunIdle
    /\ ToolsIdle
    /\ CacheIdle
    /\ GateIdle
    /\ CtxStoreIdle
    /\ CalcIdle
    /\ FusionIdle
    /\ \E class \in RegistryClasses : toolreg = NewToolReg(class)

NextRegistry ==
    \/ Register
    \/ Unregister

SpecRegistry == InitRegistry /\ [][NextRegistry]_vars

\* ------------------------------------------------------------------ end of specifications

\* ------------------------------------------------------------------ what a step did
\* The org policy a context resolves to, read from the store.
OrgOf(ctx) == Get(store.orgs, OrgIdOf(ctx), EmptyOrgPolicy)

RoleDefined(ctx) == ctx.role # NoneVal /\ ctx.role \in DOMAIN OrgOf(ctx).roles

GrantedSomewhere(tool, ctx) ==
    \/ tool \in store.global_policy.default_allowed_tools
    \/ tool \in OrgOf(ctx).allowed_tools
    \/ \E s \in OrgOf(ctx).enabled_skills : s \in DOMAIN store.skills /\ tool \in store.skills[s]
    \/ /\ RoleDefined(ctx)
       /\ \/ tool \in OrgOf(ctx).roles[ctx.role].allowed_tools
          \/ \E s \in OrgOf(ctx).roles[ctx.role].allowed_skills :
                s \in DOMAIN store.skills /\ tool \in store.skills[s]

BlockedSomewhere(tool, ctx) ==
    \/ tool \in store.global_policy.default_blocked_tools
    \/ tool \in OrgOf(ctx).blocked_tools
    \/ RoleDefined(ctx) /\ tool \in OrgOf(ctx).roles[ctx.role].blocked_tools

\* The caller's counters of today are under every cap that applies to the tool.
UnderCaps(tool, ctx) ==
    LET q == OrgOf(ctx).quotas
        snap == Get(usage, UsageKey(ctx, day), ZeroSnapshot)
    IN /\ q.daily_calls = NoLimit \/ snap.total_calls < q.daily_calls
       /\ q.daily_llm_tokens = NoLimit \/ snap.total_llm_tokens <= q.daily_llm_tokens
       /\ tool \notin DOMAIN q.per_tool_daily
          \/ Get(snap.per_tool_calls, tool, 0) < q.per_tool_daily[tool]

\* A step in which an execute call started, and the call it started: suspended
\* at the handler (a slot was taken) or ended with the result left behind.
BeginStep == ncalls' = ncalls + 1
BegunAtHandler == inflight' # inflight
BegunCall ==
    IF BegunAtHandler
    THEN LET c == CHOOSE b \in Slots : inflight'[b] # inflight[b]
         IN [action |-> inflight'[c].step.action, ctx |-> inflight'[c].ctx,
             params_valid |-> inflight'[c].step.params_valid,
             stages |-> inflight'[c].stages, error_type |-> NoneVal, error |-> NoneVal]
    ELSE [action |-> last_result'.action, ctx |-> last_result'.ctx,
          params_valid |-> last_result'.params_valid,
          stages |-> last_result'.stages, error_type |-> last_result'.error_type,
          error |-> last_result'.error]

StageOrder == <<"lookup", "allow", "quota", "sanitize", "handler", "validate">>
IsPrefix(p, q) == Len(p) <= Len(q) /\ \A i \in 1 .. Len(p) : p[i] = q[i]
InSeq(x, q) == \E i \in 1 .. Len(q) : q[i] = x

\* ------------------------------------------------------------------ C1
\* C1: every execute call in which a stage failed (unknown tool, policy denial,
\* quota denial, invalid parameters, handler exception, output-validation error)
\* ends by returning a record with success = FALSE, the message and the type name
\* of the exception raised at that stage; it never ends by raising.
C1_FailureBecomesResult ==
    LET r == last_result
        failed_at == IF r.stages = <<>> THEN NoneVal ELSE r.stages[Len(r.stages)]
    IN (r.kind # "none" /\ r.error_type \notin {NoneVal, "CancelledError"}) =>
        /\ r.kind = "returned"
        /\ r.success = FALSE
        /\ r.error # NoneVal
        /\ r.error_type =
             CASE failed_at = "lookup" -> "KeyError"
               [] failed_at = "allow" -> "PermissionError"
               [] failed_at = "quota" -> "RuntimeError"
               [] failed_at = "sanitize" -> "ValueError"
               [] failed_at = "handler" -> "TimeoutError"
               [] OTHER -> "ValidationError"

C1_Witness ==
    /\ last_result.kind = "returned"
    /\ last_result.success = FALSE
    /\ last_result.error_type = "TimeoutError"
    /\ last_result.stages = <<"lookup", "allow", "quota", "sanitize", "handler">>

\* ------------------------------------------------------------------ C2
\* C2: the stages of a call run in the order lookup, allow, quota, sanitize,
\* handler, validate, and a call reaches the handler only when its tool is
\* registered, allowed by the policy, under its caps, and has valid parameters.
C2_StagesInOrder ==
    /\ IsPrefix(last_result.stages, StageOrder)
    /\ \A c \in Slots : inflight[c].pc = "awaiting" =>
          inflight[c].stages = SubSeq(StageOrder, 1, 5)

C2_HandlerStep ==
    (BeginStep /\ InSeq("handler", BegunCall.stages)) =>
        /\ BegunCall.action \in DOMAIN registry
        /\ GrantedSomewhere(BegunCall.action, BegunCall.ctx)
        /\ ~BlockedSomewhere(BegunCall.action, BegunCall.ctx)
        /\ UnderCaps(BegunCall.action, BegunCall.ctx)
        /\ (store.global_policy.enforce_input_schema
            /\ registry[BegunCall.action].input_schema) => BegunCall.params_valid

C2_HandlerOnlyAfterChecks == []C2_StagesInOrder /\ [][C2_HandlerStep]_vars

C2_Witness ==
    /\ last_result.kind = "returned"
    /\ last_result.error_type = "ValueError"
    /\ last_result.stages = <<"lookup", "allow", "quota", "sanitize">>
    /\ \E c \in Slots : inflight[c].pc = "awaiting"

\* ------------------------------------------------------------------ C3
\* C3: a call for a tool that no applicable allow set grants is denied (failed
\* result, handler not invoked), whatever the counters and the quota limits are.
C3_UngrantedToolDenied ==
    /\ \A c \in Slots : inflight[c].pc = "awaiting" =>
          GrantedSomewhere(inflight[c].step.action, inflight[c].ctx)
    /\ (last_result.kind # "none"
        /\ ~GrantedSomewhere(last_result.action, last_result.ctx)) =>
          /\ last_result.success = FALSE
          /\ last_result.error_type = "PermissionError"
          /\ last_result.stages = <<"lookup", "allow">>

C3_Witness ==
    /\ last_result.action = "admin_tool"
    /\ last_result.error_type = "PermissionError"
    /\ last_result.ctx.role = "viewer"
    /\ ~GrantedSomewhere("admin_tool", last_result.ctx)
    /\ OrgOf(last_result.ctx).quotas = NoQuotas
    /\ usage = EmptyMap

\* ------------------------------------------------------------------ C4
\* C4: a started call for an allowed tool whose per-tool count of today has
\* reached its per-tool cap fails at the quota check, also when the total count
\* is below the daily cap; a call for an allowed tool under every cap, with
\* valid parameters, reaches the handler.
C4_Step ==
    BeginStep =>
        LET call == BegunCall
            q == OrgOf(call.ctx).quotas
            snap == Get(usage, UsageKey(call.ctx, day), ZeroSnapshot)
            allowed == /\ call.action \in DOMAIN registry
                       /\ GrantedSomewhere(call.action, call.ctx)
                       /\ ~BlockedSomewhere(call.action, call.ctx)
        IN /\ (/\ allowed
               /\ call.action \in DOMAIN q.per_tool_daily
               /\ Get(snap.per_tool_calls, call.action, 0) >= q.per_tool_daily[call.action])
              => /\ call.stages = <<"lookup", "allow", "quota">>
                 /\ call.error_type = "RuntimeError"
                 /\ (q.daily_calls = NoLimit \/ snap.total_calls < q.daily_calls)
                      => call.error = "Daily quota exceeded for tool"
           /\ (allowed /\ UnderCaps(call.action, call.ctx) /\ call.params_valid)
              => InSeq("handler", call.stages)

C4_PerToolCapDenies == [][C4_Step]_vars

\* price_compare was denied at its per-tool cap with daily capacity left, and
\* decision_score of the same caller is at its handler.
C4_Witness ==
    /\ last_result.error = "Daily quota exceeded for tool"
    /\ last_result.action = "price_compare"
    /\ UnderCaps("decision_score", last_result.ctx)
    /\ OrgOf(last_result.ctx).quotas.daily_calls # NoLimit
    /\ \E c \in Slots : /\ inflight[c].pc = "awaiting"
                        /\ inflight[c].step.action = "decision_score"
                        /\ inflight[c].ctx = last_result.ctx

\* ------------------------------------------------------------------ C5
\* C5: a call for a registered tool passes the allow check exactly when some
\* allow set (global default, org allow, org-enabled skills, role allow,
\* role-allowed skills) grants the tool and no block set (global, org, role)
\* holds it.
C5_AllowIsSetMembership ==
    /\ \A c \in Slots : inflight[c].pc = "awaiting" =>
          /\ GrantedSomewhere(inflight[c].step.action, inflight[c].ctx)
          /\ ~BlockedSomewhere(inflight[c].step.action, inflight[c].ctx)
    /\ Len(last_result.stages) >= 2 =>
          (last_result.stages = <<"lookup", "allow">>
             <=> ~(/\ GrantedSomewhere(last_result.action, last_result.ctx)
                   /\ ~BlockedSomewhere(last_result.action, last_result.ctx)))

\* Role viewer has no allow entry of its own; price_compare comes through the
\* skill the org enabled, and the call succeeded.
C5_Witness ==
    /\ last_result.success
    /\ last_result.action = "price_compare"
    /\ last_result.ctx.role = "viewer"
    /\ OrgOf(last_result.ctx).roles["viewer"] = RolePolicy({}, {}, {})
    /\ OrgOf(last_result.ctx).allowed_tools = {}
    /\ OrgOf(last_result.ctx).enabled_skills = {"smart_buyer_basic"}

\* ------------------------------------------------------------------ C6
\* C6: for every (org, user, day), the calls that got past the quota check are
\* at most the daily-call cap, and those for one tool at most that tool's
\* per-tool cap, in every interleaving of the suspended calls.
C6_PassesWithinCaps ==
    \A k \in DOMAIN passed :
        LET org == Get(store.orgs, IF k[1][1] = "_" THEN "default" ELSE k[1][1],
                       EmptyOrgPolicy)
            q == org.quotas
        IN IF k[2] = "*"
           THEN q.daily_calls = NoLimit \/ passed[k] <= q.daily_calls
           ELSE k[2] \notin DOMAIN q.per_tool_daily \/ passed[k] <= q.per_tool_daily[k[2]]

\* Every slot holds a suspended call of one caller, these calls used up the
\* daily cap, and one more call was denied meanwhile.
C6_Witness ==
    /\ \A c \in Slots : inflight[c].pc = "awaiting" /\ inflight[c].ctx.org_id = "org_demo"
    /\ last_result.error = "Daily tool-call quota exceeded"
    /\ \E k \in DOMAIN passed : k[2] = "*" /\ passed[k] = DailyCap

\* ------------------------------------------------------------------ planner claims
Planned == pl_out.status = "returned"
FinalizeCount(steps) == Cardinality({i \in 1 .. Len(steps) : steps[i].kind = "finalize"})
ToolSteps(steps) == {i \in 1 .. Len(steps) : steps[i].kind = "tool"}

\* C7: every plan the planner returns holds exactly one finalize step and that
\* step is the last one, whatever the completion was (no finalize, finalize
\* in the middle, several finalize steps, an empty step list).
C7_ExactlyOneFinalizeLast ==
    Planned =>
        /\ Len(pl_out.steps) >= 1
        /\ pl_out.steps[Len(pl_out.steps)].kind = "finalize"
        /\ FinalizeCount(pl_out.steps) = 1

\* C8: a returned plan is never longer than the configured maximum number of
\* steps, the finalize step the planner appends included.
C8_LengthWithinMaxSteps ==
    Planned => Len(pl_out.steps) <= pl_in.cfg.max_steps

\* C9: with allowed-tool enforcement on, every tool step of a returned plan
\* names a tool of the profile's allow-list that the registry knows, fallback
\* plans included.
C9_ToolStepsAllowedAndKnown ==
    (Planned /\ pl_in.cfg.enforce_allowed_tools) =>
        \A i \in ToolSteps(pl_out.steps) :
            /\ pl_out.steps[i].tool \in pl_in.profile.allowed_tools
            /\ pl_out.steps[i].tool \in pl_in.tools.known

\* ------------------------------------------------------------------ flow claims
\* This step of the loop ran a node.
NodeRan == flow.pc = "looping" /\ state'.step_index = state.step_index + 1

HaltReason(s) == Get(s.metadata, "halt_reason", NoneVal)

\* The run stopped on its token budget: halted with that reason, the output
\* rebuilt from the facts, and the loop left.
HaltedOnBudget(s, fl) ==
    /\ s.halted
    /\ HaltReason(s) = "token_budget_exceeded"
    /\ s.output = PartialOutput(s, "budget_exceeded")
    /\ fl.pc = "returned"

\* Once the run stopped on its budget no node runs and the state stays as is.
NoNodeAfterBudgetHalt ==
    HaltReason(state) = "token_budget_exceeded" => state' = state

\* C10 (as stated): after any node finishes, if the spent tokens exceed the token
\* budget the flow halts with reason token_budget_exceeded, sets the partial
\* output built from the offers, scoring and explanation facts, and runs no
\* further node.
C10_OverBudgetHalts ==
    [][(NodeRan /\ state'.spent_token > state'.budget_token)
         => HaltedOnBudget(state', flow')]_vars
    /\ [][NoNodeAfterBudgetHalt]_vars

\* C10 (amended): after any node finishes, if the token budget is positive and
\* the spent tokens exceed it, the flow halts with reason
\* token_budget_exceeded, sets the partial output built from the facts, and
\* runs no further node.  A budget of zero or less means no budget.
C10_Step ==
    (NodeRan /\ state'.budget_token > 0 /\ state'.spent_token > state'.budget_token)
        => HaltedOnBudget(state', flow')

C10_OverPositiveBudgetHalts ==
    [][C10_Step]_vars /\ [][NoNodeAfterBudgetHalt /\ (flow.pc = "returned" => flow' = flow)]_vars

C10_Witness ==
    /\ state.budget_token > 0
    /\ state.spent_token > state.budget_token
    /\ state.step_index = 1
    /\ Len(flow.nodes) > 1
    /\ HaltedOnBudget(state, flow)
    /\ "offers" \in DOMAIN state.facts
    /\ state.output.offers = "found"

\* Number of nodes the run has executed: BaseNode.run logs one "run" entry each.
NodesExecuted(s) == Cardinality({k \in 1 .. Len(s.log) : s.log[k].step = "run"})

\* The loop stands before a node with the step counter at the maximum.
AtMaxSteps ==
    /\ flow.pc = "looping"
    /\ flow.i <= Len(flow.nodes)
    /\ ~state.done /\ ~state.halted
    /\ state.step_index >= flow.max_steps

C11_Step ==
    AtMaxSteps =>
        /\ state'.halted
        /\ HaltReason(state') = "max_steps_exceeded"
        /\ state'.output = PartialOutput(state, "max_steps_exceeded")
        /\ state'.facts = state.facts
        /\ state'.log = state.log
        /\ state'.step_index = state.step_index
        /\ flow'.pc = "returned"

\* C11: a run never executes more than max-steps nodes; when the step counter
\* reaches max-steps while nodes remain and the run is neither done nor halted,
\* the flow halts with reason max_steps_exceeded and a partial output built
\* from the current facts, and runs none of the remaining nodes.
C11_NeverMoreThanMaxSteps ==
    /\ [](NodesExecuted(state) <= flow.max_steps /\ state.step_index <= flow.max_steps)
    /\ [][C11_Step]_vars
    /\ [][HaltReason(state) = "max_steps_exceeded" => state' = state]_vars

C11_Witness ==
    /\ flow.pc = "returned"
    /\ HaltReason(state) = "max_steps_exceeded"
    /\ NodesExecuted(state) = flow.max_steps
    /\ flow.i <= Len(flow.nodes)
    /\ ~state.done
    /\ state.output = PartialOutput(state, "max_steps_exceeded")
    /\ state.output.offers = "found"

\* The finalize node ran: its "run" entry is in the log without an error.
FinalizeRan(s) ==
    \E k \in 1 .. Len(s.log) :
        s.log[k].kind = "finalize" /\ s.log[k].step = "run" /\ s.log[k].error = NoneVal

NodeCallResult ==
    execute_result(store, usage, registry,
                   [action |-> "price_compare", params_valid |-> TRUE],
                   build_request_context(flow.ctx), day, NoneVal, TRUE).result

\* Positions of the log's "run" entries of a node.
RunEntries(s, node) ==
    {k \in 1 .. Len(s.log) : s.log[k].kind = node /\ s.log[k].step = "run"}

NodeRaised ==
    /\ NodeRan
    /\ state'.log[Len(state'.log)].error # NoneVal

C14_Step ==
    NodeRaised =>
        /\ Len(state'.log) = Len(state.log) + 2
        /\ state'.log[Len(state'.log) - 1] =
              [kind |-> flow.nodes[flow.i], step |-> "error", node |-> flow.nodes[flow.i],
               error |-> state'.log[Len(state'.log)].error]
        /\ state'.facts = state.facts
        /\ ~state'.done
        /\ flow'.pc # "raised"
        /\ state'.halted => (budget_exceeded(state') /\ HaltReason(state') = "token_budget_exceeded")
        /\ ~state'.halted => (/\ flow'.pc = "looping"
                              /\ flow'.i = flow.i + 1
                              /\ flow'.i <= Len(flow.nodes))

\* The loop stands before a node and no guard stops it.
NodeDue ==
    /\ flow.pc = "looping"
    /\ flow.i <= Len(flow.nodes)
    /\ ~state.done /\ ~state.halted
    /\ state.step_index < flow.max_steps

\* C14: an exception raised while a node runs is caught at the node template
\* boundary and recorded in the step log; it neither halts the run nor reaches
\* the flow, and the next node of the plan still executes.
C14_NodeErrorIsSoft ==
    /\ [][C14_Step]_vars
    /\ [][NodeDue => (NodeRan /\ state'.current_node = flow.nodes[flow.i])]_vars

C14_Witness ==
    /\ flow.pc = "returned"
    /\ ~state.halted /\ state.done
    /\ \E k \in 1 .. Len(state.log) :
         /\ state.log[k].step = "error" /\ state.log[k].kind = "price_compare"
         /\ \E j \in (k + 2) .. Len(state.log) :
              state.log[j].step = "run" /\ state.log[j].kind = "explain"
    /\ FinalizeRan(state)


\* ------------------------------------------------------------------ orchestrator claims
\* This step answered a run that was still going on.
TimedOut ==
    /\ orch.pc = "waiting"
    /\ orch'.pc = "responded"
    /\ flow.pc \notin {"returned", "raised"}

C15_Step ==
    TimedOut =>
        /\ orch'.response.error = "timeout"
        /\ orch'.response.explanation = "timeout"
        /\ orch'.response.offers = "empty"
        /\ orch'.response.scoring = "empty"
        /\ ~orch'.response.halted
        /\ flow'.pc = "cancelled"
        /\ state' = state

\* C15: a run that exceeds its timeout is cancelled and answered with the
\* fixed envelope whose reason is "timeout" and whose offers are empty; the
\* envelope holds nothing of the run's state, and the cancelled run does not
\* touch the state afterwards.
C15_TimeoutEnvelope ==
    /\ [][C15_Step]_vars
    /\ [][flow.pc = "cancelled" => (state' = state /\ flow' = flow)]_vars
    /\ [](orch.response.error = "timeout" =>
            (orch.response.offers = "empty" /\ flow.pc = "cancelled"))

C15_Witness ==
    /\ orch.pc = "responded"
    /\ orch.response.error = "timeout"
    /\ orch.response.offers = "empty"
    /\ flow.pc = "cancelled"
    /\ Len(flow.nodes) > 1
    /\ flow.i = 1


\* ------------------------------------------------------------------ state claims
\* C16: whenever the state is flagged halted, its halt reason is recorded,
\* whichever writer set the flag: a guard of the flow, a failed control-plane
\* call, or the token accounting.
C16_HaltedHasReason ==
    state.halted => HaltReason(state) # NoneVal


\* The stage of execute at which the last call failed.
FailedStage == last_result.stages[Len(last_result.stages)]

\* The state was halted by the failed control-plane call.
HaltedByControlPlane ==
    /\ state.halted
    /\ state.output.error # NoneVal
    /\ last_result.kind = "returned"
    /\ ~last_result.success

\* C17: the front door reports a run halted by a quota denial as 429, by a
\* tool that is blocked or not allowed as 403, by a tool error as 502, and by
\* any other halt reason as 400.
C17_HaltReasonsMapped ==
    LET reported == front_door_status(FlowOutput(state).metadata)
    IN  /\ (HaltedByControlPlane /\ FailedStage = "quota") => reported = 429
        /\ (HaltedByControlPlane /\ FailedStage = "allow") => reported = 403
        /\ (HaltedByControlPlane /\ FailedStage \in {"handler", "validate"}) => reported = 502
        /\ (state.halted /\ ~HaltedByControlPlane /\ HaltReason(state) # NoneVal)
              => reported = 400

\* The part of C17 that the code keeps: every recorded halt reason is reported
\* as an error, and the reasons of the flow's guards as 400.
C17_GuardHaltsAre400 ==
    (state.halted /\ ~HaltedByControlPlane /\ HaltReason(state) # NoneVal)
        => front_door_status(FlowOutput(state).metadata) = 400


\* ------------------------------------------------------------------ tool claims

\* This step made a call; NewCall is what the call has become.
CallMade == pc_tool'.ncalls = pc_tool.ncalls + 1
NewCall == pc_tool'.calls[pc_tool'.last]

C18_Step ==
    (CallMade /\ InWindow(pc_tool)) =>
        /\ NewCall.pc = "done"
        /\ NewCall.result = "circuit_open"
        /\ NewCall.invoked = 0
        /\ pc_tool'.engine_calls = pc_tool.engine_calls

\* C18: after as many consecutive failed calls as the breaker's threshold,
\* every call made before the cooldown has passed returns the circuit_open
\* result at once and does not invoke the engine.
C18_OpenCircuitFailsFast == [][C18_Step]_vars

C18_Witness ==
    /\ pc_tool.cb_threshold = CbThreshold
    /\ InWindow(pc_tool)
    /\ pc_tool.calls[pc_tool.last].result = "circuit_open"
    /\ pc_tool.calls[pc_tool.last].invoked = 0

\* This step ended a call with the engine's result.
CallSucceeded ==
    \E c \in ToolSlots :
        /\ pc_tool.calls[c].pc = "attempting"
        /\ pc_tool'.calls[c].result = "offers"

C19_Step ==
    /\ (CallMade /\ CooledDown(pc_tool)) =>
          /\ NewCall.result # "circuit_open"
          /\ NewCall.result = "empty_query" \/ NewCall.pc = "attempting"
          /\ NewCall.pc = "attempting" =>
                (NewCall.invoked = 1 /\ pc_tool'.engine_calls = pc_tool.engine_calls + 1)
    /\ CallSucceeded =>
          /\ pc_tool'.cb_failures = 0
          /\ ~circuit_open(pc_tool')

\* C19: once the cooldown of an open breaker has passed, the next call is not
\* failed fast but invokes the engine (a call without a query returns before
\* it); a call that succeeds resets the failure count to zero, and the breaker
\* is closed for as long as the failed calls since then stay below the
\* threshold.
C19_ProbeAfterCooldown ==
    /\ [][C19_Step]_vars
    /\ [](pc_tool.streak < pc_tool.cb_threshold => ~circuit_open(pc_tool))

C19_Witness ==
    /\ pc_tool.cb_threshold = CbThreshold
    /\ \E c \in ToolSlots :
         /\ pc_tool.calls[c].after_cooldown
         /\ pc_tool.calls[c].result = "offers"
    /\ pc_tool.cb_failures = 0
    /\ ~circuit_open(pc_tool)


\* ------------------------------------------------------------------ retry claims
\* One call of the tool stays within its attempts and sleeps only between them.
ToolLoopBounded ==
    \A c \in ToolSlots :
        LET call == pc_tool.calls[c]
        IN  /\ call.invoked <= 1 + pc_tool.max_retries
            /\ call.invoked > 0 => call.sleeps = call.invoked - 1
            /\ call.pc = "sleeping" => call.invoked < 1 + pc_tool.max_retries
            /\ call.pc = "done" => call.result \in {"circuit_open", "empty_query",
                                                    "offers", "failed"}

\* The scraper's or the runner's loop stays within its attempts, sleeps only
\* between them, and ends with a result, a failure result, or the error of its
\* last attempt raised.
RetryLoopBounded ==
    /\ retry.tries <= 1 + retry.max_retries
    /\ retry.pc = "sleeping" => (retry.sleeps = retry.tries - 1
                                 /\ retry.tries < 1 + retry.max_retries)
    /\ retry.pc \in {"attempting", "ended"} => retry.sleeps = retry.tries - 1
    /\ retry.pc = "ended" =>
          \/ retry.outcome \in {"result", "failure_result"}
          \/ retry.outcome = "raised" /\ retry.raised = retry.seen[Len(retry.seen)]

\* C20: every retry loop is bounded: a PriceCompareTool call, a scraper fetch
\* and a runner run make at most 1 + max_retries attempts and then return a
\* failure result or raise the last error, with a backoff sleep between
\* attempts only.
C20_RetryBounded ==
    /\ ToolLoopBounded
    /\ retry.kind \in {"scraper", "runner"} => RetryLoopBounded

\* What the scraper's loop keeps of C20: the bound on attempts and sleeps.
C20_AttemptsBounded ==
    /\ retry.tries <= 1 + retry.max_retries
    /\ retry.pc # "sleeping" => retry.sleeps = IF retry.tries > 0 THEN retry.tries - 1 ELSE 0
    /\ retry.pc = "sleeping" => retry.tries < 1 + retry.max_retries

\* Failures after which another attempt can succeed: timeouts and connection
\* failures.
TransientErrors == {"timeout", "ConnectionError", "TimeoutException", "RequestError"}

\* C21: a tool call is retried only after a transient failure; after any other
\* failure it makes no further attempt and sleeps no backoff.
C21_RetryOnlyTransient ==
    /\ \A c \in ToolSlots :
          pc_tool.calls[c].pc = "sleeping" => pc_tool.calls[c].last_error \in TransientErrors
    /\ (retry.kind \in {"scraper", "web_search"} /\ retry.pc = "sleeping")
          => retry.last_error \in TransientErrors

\* What the scraper keeps of C21: only httpx timeouts and request errors are
\* followed by a backoff sleep.
C21_ScraperRetriesTransient ==
    (retry.kind = "scraper" /\ retry.pc = "sleeping") => retry.last_error \in TransientErrors

\* ------------------------------------------------------------------ C22
\* The request that HandleOneBegin has just admitted in this step.
Admitted(r) == cache.reqs[r].pc = "idle" /\ cache'.reqs[r].pc # "idle"

\* The last successful cached fetch under the request's key.
LastStored(r) == cache.stored[_build_cache_key(cache'.reqs[r])]

AnsweredFromCache(r) ==
    LET q == cache'.reqs[r]
    IN q.pc = "done" /\ q.ok /\ q.from_cache /\ ~q.fetched

FetchStarted(r) ==
    /\ cache'.reqs[r].pc = "fetching"
    /\ ~cache'.store[_build_cache_key(cache'.reqs[r])].present

C22_Step ==
    \A r \in CacheSlots :
        (Admitted(r) /\ cache'.reqs[r].use_cache /\ LastStored(r).present) =>
            /\ cache.now < LastStored(r).at + LastStored(r).ttl => AnsweredFromCache(r)
            /\ cache.now > LastStored(r).at + LastStored(r).ttl => FetchStarted(r)

C22_Step_Stated ==
    \A r \in CacheSlots :
        (Admitted(r) /\ cache'.reqs[r].use_cache /\ LastStored(r).present) =>
            /\ cache.now < LastStored(r).at + LastStored(r).ttl => AnsweredFromCache(r)
            /\ cache.now >= LastStored(r).at + LastStored(r).ttl => FetchStarted(r)

InGate == {r \in GateRuns : gate.runs[r] = "running"}
HoldsSlot == {r \in GateRuns : gate.runs[r] \in {"running", "woken"}}

GateBounded ==
    /\ Cardinality(InGate) <= gate.max_concurrent
    /\ Cardinality(HoldsSlot) + gate.value = gate.max_concurrent
    /\ gate.value >= 0

\* A run that arrives at a full gate is queued, and a run enters the gate only
\* on a slot nobody else holds.
C23_Step ==
    \A r \in GateRuns :
        /\ (gate.runs[r] = "arriving" /\ gate'.runs[r] # "arriving"
              /\ Cardinality(HoldsSlot) = gate.max_concurrent)
              => gate'.runs[r] = "waiting"
        /\ (gate.runs[r] = "waiting" /\ gate'.runs[r] \in {"woken", "running"})
              => \E s \in HoldsSlot \ {r} : gate'.runs[s] \in {"left", "cancelled"}
        /\ (gate.runs[r] # "running" /\ gate'.runs[r] = "running")
              => Cardinality(InGate) < gate.max_concurrent

\* C23: at every instant at most max_concurrent runs execute inside the
\* admission gate; a run that arrives when the gate is full waits and starts
\* executing only once a slot is free.
C23_GateBounded == [](gate.pc = "ready" => GateBounded) /\ [][gate.pc = "ready" => C23_Step]_vars

\* The gate is full, one run is queued behind it, and a run that had to wait
\* before is now executing.
C23_Witness ==
    /\ gate.pc = "ready"
    /\ Cardinality(InGate) = gate.max_concurrent
    /\ Len(gate.waiters) > 0
    /\ \E r \in InGate : gate.hist[r] = "waited"

\* ------------------------------------------------------------------ C24
Loaded == {o \in CtxOps : ctx_store.ops[o].kind = "load" /\ ctx_store.ops[o].pc = "done"}

\* C24: under every interleaving of loads and saves of one session id, a
\* load returns the empty map or exactly the map of one completed save, never
\* a partially written or mixed one.
C24_LoadIsWholeSave ==
    ctx_store.pc = "ready" =>
        \A o \in Loaded :
            ctx_store.ops[o].result = EmptyCtx \/ ctx_store.ops[o].result \in ctx_store.saved

\* A load has returned the map of a completed save while another save, of a
\* different map, has half-written the temporary file.
C24_Witness ==
    /\ ctx_store.pc = "ready"
    /\ \E o \in Loaded, s \in CtxOps :
          /\ ctx_store.ops[o].result # EmptyCtx
          /\ ctx_store.ops[s].kind = "save" /\ ctx_store.ops[s].pc = "write2"
          /\ ctx_store.ops[s].context \notin {EmptyCtx, ctx_store.ops[o].result}

\* ------------------------------------------------------------------ C25
Returned == fusion.pc \in {"returned", "refused"}
Failed(s) == fusion.outcome[s] \in {"timeout", "raised"}
SitesIn(offers) == UNION {offers[i].sources : i \in 1 .. Len(offers)}
KeysIn(offers) == {_norm(offers[i].canonical) : i \in 1 .. Len(offers)}

\* C25: a provider that raises or runs into its timeout contributes no offer
\* and has its error recorded under its site name; every product an answering
\* provider listed is still in the fused offers, and the compare call returns.
C25_FailSoft ==
    Returned =>
        \A s \in fusion.sites :
            /\ Failed(s) => (fusion.errors[s] # "none" /\ s \notin SitesIn(fusion.fused))
            /\ fusion.outcome[s] = "answered" =>
                  /\ fusion.errors[s] = "none"
                  /\ KeysIn(fusion.results[s]) \subseteq KeysIn(fusion.fused)
                  /\ (fusion.results[s] # <<>> => s \in SitesIn(fusion.fused))

\* One provider timed out, the other answered, and the answer is returned.
C25_Witness ==
    /\ fusion.pc = "returned"
    /\ fusion.outcome["shopee"] = "timeout"
    /\ fusion.outcome["lazada"] = "answered"
    /\ Len(fusion.offers) = 1
    /\ fusion.offers[1].site = "lazada"

\* ------------------------------------------------------------------ C26
\* In-stock before out-of-stock, then ascending effective price, then
\* descending seller rating.
InOrder(a, b) ==
    \/ a.in_stock /\ ~b.in_stock
    \/ /\ a.in_stock = b.in_stock
       /\ \/ a.effective_price < b.effective_price
          \/ /\ a.effective_price = b.effective_price
             /\ a.seller_rating >= b.seller_rating

Ordered(offers) ==
    \A i, j \in 1 .. Len(offers) : i < j => InOrder(offers[i], offers[j])

AtLeastOne(n) == IF n < 1 THEN 1 ELSE n

\* C26: the result holds at most the requested number of offers, and at most
\* one when less than one was requested, in stock first, then by ascending
\* effective price, then by descending seller rating.
C26_CutAndOrder ==
    Returned =>
        /\ Len(fusion.offers) <= AtLeastOne(fusion.top_k)
        /\ Len(fusion.offers) <= Len(fusion.fused)
        /\ Ordered(fusion.offers)

\* C26 as stated: never more offers than requested.
C26_CutAndOrder_Stated ==
    Returned => (Len(fusion.offers) <= fusion.top_k /\ Ordered(fusion.offers))

\* Three products were fused, two were asked for, and the two returned differ
\* in stock.
C26_Witness ==
    /\ fusion.pc = "returned"
    /\ fusion.top_k = 2
    /\ Len(fusion.fused) = 3
    /\ Len(fusion.offers) = 2
    /\ fusion.offers[1].in_stock /\ ~fusion.offers[2].in_stock

\* ------------------------------------------------------------------ C27
\* C27: duplicate fusion applied to its own output returns the same offers:
\* one per lower-cased canonical key, the same representative and the same
\* source sites.
C27_FuseIdempotent ==
    fusion.pc = "refused" => fusion.refused = fusion.fused

\* What does survive the second pass: the keys, the representatives and
\* their widened rating, in the same order.
C27_SameUpToSources ==
    fusion.pc = "refused" =>
        /\ Len(fusion.refused) = Len(fusion.fused)
        /\ \A i \in 1 .. Len(fusion.fused) :
              /\ [fusion.refused[i] EXCEPT !.sources = {}] = [fusion.fused[i] EXCEPT !.sources = {}]
              /\ fusion.refused[i].sources = {fusion.fused[i].site}
        /\ \A i, j \in 1 .. Len(fusion.fused) :
              i # j => _norm(fusion.fused[i].canonical) # _norm(fusion.fused[j].canonical)

\* ------------------------------------------------------------------ C28
\* The weights in use sum to 1 within 1e-6.
SumsToOne(u) ==
    LET diff == SumSeq(u.weights) - u.den
    IN (IF diff < 0 THEN 0 - diff ELSE diff) * 1000000 <= u.den

AllZero(criteria) == \A i \in 1 .. Len(criteria) : criteria[i].weight = 0

Uniform(u) == \A i, j \in 1 .. Len(u.weights) : u.weights[i] = u.weights[j]

\* C28: whatever weights are handed to decision scoring, all-zero included,
\* the weights used sum to 1 within 1e-6, and all-zero weights become uniform.
C28_WeightsSumToOne ==
    calc.pc \in {"validated", "profiled"} =>
        /\ calc.used.error = "none"
        /\ SumsToOne(calc.used)
        /\ AllZero(calc.criteria) => Uniform(calc.used)

\* The profile's own normalisation does what C28 says.
C28_ProfileWeightsSumToOne ==
    calc.pc = "profiled" =>
        /\ calc.used.error = "none"
        /\ SumsToOne(calc.used)
        /\ AllZero(calc.criteria) => (Uniform(calc.used) /\ calc.used.weights[1] > 0)

\* ------------------------------------------------------------------ C29
Scored == calc.pc \in {"scored", "filtered"}

\* The options with a value for criterion k.
Valid(k) == {i \in 1 .. Len(calc.options) : calc.criteria[k].name \in calc.options[i].known}

Smallest(k) ==
    {i \in Valid(k) :
        \A j \in Valid(k) : RawValue(calc.options[i], calc.criteria[k].name)
                               <= RawValue(calc.options[j], calc.criteria[k].name)}

\* C29: for a minimize criterion an option with the smallest raw value has a
\* normalised score at least as high as every other valid option's, whatever
\* the raw values are.
C29_SmallestScoresHighest ==
    Scored =>
        \A k \in 1 .. Len(calc.criteria) :
            ~calc.criteria[k].maximize =>
                \A i \in Smallest(k), j \in Valid(k) : calc.scores[i][k] >= calc.scores[j][k]

\* ------------------------------------------------------------------ C30
Dominant(d) ==
    \A j \in 1 .. Len(calc.options) :
        j # d => dominates(calc.options, calc.criteria, d, j)

\* C30: when one option dominates every other one, the winner with the
\* Pareto pre-filter is the winner without it.
C30_ParetoKeepsWinner ==
    calc.pc = "filtered" =>
        ((\E d \in 1 .. Len(calc.options) : Dominant(d)) => calc.best_pareto = calc.best)

\* With the pre-filter the dominant option is the only one kept, and wins.
C30_DominantWinsFiltered ==
    calc.pc = "filtered" =>
        \A d \in 1 .. Len(calc.options) :
            Dominant(d) => (calc.kept = {d} /\ calc.best_pareto = d)

\* ------------------------------------------------------------------ C31
ShortQueryEnvelope ==
    [offers |-> "empty", scoring |-> "empty", explanation |-> "query too short",
     error |-> "query too short", halted |-> FALSE, halt_reason |-> NoneVal,
     present |-> TRUE]

C31_Step ==
    (orch.pc = "called" /\ Len(strip(orch.query)) < 2) =>
        /\ orch'.pc = "responded"
        /\ orch'.response = ShortQueryEnvelope
        /\ UNCHANGED <<cp_vars, pl_vars, fl_vars, tl_vars>>

\* C31: a request whose query is empty, blank or shorter than two characters
\* is answered at once with reason "query too short", empty offers and empty
\* scoring; no flow is built, no tool and no control-plane call is made and no
\* usage counter changes.
C31_ShortQueryAnsweredAtOnce ==
    [][C31_Step]_vars /\ [](orch.query_short => (flow.pc = "none" /\ orch.pc \in {"called", "responded", "none"}))

\* A one-letter query wrapped in blanks has been answered.
C31_Witness ==
    /\ orch.pc = "responded"
    /\ orch.query = <<" ", "a", " ">>
    /\ orch.response = ShortQueryEnvelope
    /\ flow.pc = "none"

\* ------------------------------------------------------------------ C32
DuplicateRegister ==
    /\ toolreg.pc = "ready"
    /\ toolreg.last.done
    /\ toolreg.last.name \in RegNames
    /\ toolreg.before[toolreg.last.name] # "none"

\* C32: registering under a name that is already registered fails and leaves
\* the first entry in place.
C32_DuplicateRejected ==
    DuplicateRegister => (toolreg.last.error # "none" /\ toolreg.tools = toolreg.before)

\* The control plane's own registry does reject duplicates, and so do the
\* other two when called with overwrite=False.
C32_StrictRegistriesReject ==
    (DuplicateRegister /\ (toolreg.class = "control_plane.core" \/ ~toolreg.last.overwrite))
        => (toolreg.last.error # "none" /\ toolreg.tools = toolreg.before)


\* ------------------------------------------------------------------ C33
\* The plan of the answered request has a step of this kind.
PlanHas(kind) == \E i \in 1 .. Len(orch.plan.steps) : orch.plan.steps[i].kind = kind

\* A request of the kind the end-to-end test sends: a query of two characters
\* or more, the demo identity, a plan with a price_compare step, a decide step
\* and a finalize step, and an answer that is not the timeout envelope.
HappyRequest ==
    /\ orch.pc = "responded"
    /\ ~orch.query_short
    /\ orch.ctx = NoCtx
    /\ orch.plan.status = "returned"
    /\ \E i \in 1 .. Len(orch.plan.steps) : orch.plan.steps[i].tool = "price_compare"
    /\ PlanHas("decide")
    /\ PlanHas("finalize")
    /\ orch.response.error # "timeout"

\* C33: a valid query from an allowed caller, with responsive providers and
\* within budget, runs the price_compare, decision and finalize nodes and is
\* answered with a non-empty offers list and non-empty option scores.
C33_HappyPathAnswered ==
    HappyRequest
    => /\ RunEntries(state, "price_compare") # {}
       /\ RunEntries(state, "decision") # {}
       /\ RunEntries(state, "finalize") # {}
       /\ orch.response.error = NoneVal
       /\ orch.response.offers = "found"
       /\ orch.response.scoring = "found"

\* What the code does with such a request: the DecisionNode cannot be built,
\* no node runs and the answer is the error envelope of the TypeError.
C33_HappyPathFailsToBuild ==
    HappyRequest
    => /\ state.log = <<>>
       /\ orch.response = error_response("TypeError")


\* ------------------------------------------------------------------ C34
\* The counters the tracker reports for a key: a key it has no snapshot for
\* counts zero.
TotalCalls(us, k) == Get(us, k, ZeroSnapshot).total_calls
ToolCalls(us, k, t) == Get(Get(us, k, ZeroSnapshot).per_tool_calls, t, 0)

\* C34: a call that passes the allow check and the quota check adds exactly
\* one to the total-call counter and to its tool's counter of the caller's
\* (org, user, day) and changes no other counter, whatever the handler does
\* later; a call rejected as unknown, not allowed or over quota, and every step
\* that is not the start of a call, changes no counter.
C34_Step ==
    LET keys == DOMAIN usage \cup DOMAIN usage'
        call == BegunCall
        authorized == /\ BeginStep
                      /\ call.action \in DOMAIN registry
                      /\ GrantedSomewhere(call.action, call.ctx)
                      /\ ~BlockedSomewhere(call.action, call.ctx)
                      /\ UnderCaps(call.action, call.ctx)
        counted(k) == authorized /\ k = UsageKey(call.ctx, day')
    IN \A k \in keys :
         /\ TotalCalls(usage', k) = TotalCalls(usage, k) + (IF counted(k) THEN 1 ELSE 0)
         /\ \A t \in StepActions :
              ToolCalls(usage', k, t) =
                ToolCalls(usage, k, t) + (IF counted(k) /\ t = call.action THEN 1 ELSE 0)

C34_CountersChangeOnAuthorizedCalls == [][C34_Step]_vars

\* A call of a caller with quotas was counted and its handler failed afterwards.
C34_Witness ==
    /\ last_result.error_type = "TimeoutError"
    /\ TotalCalls(usage, UsageKey(last_result.ctx, day)) >= 1
    /\ ToolCalls(usage, UsageKey(last_result.ctx, day), last_result.action) >= 1
    /\ OrgOf(last_result.ctx).quotas # NoQuotas


\* ------------------------------------------------------------------ C36
\* C36: no step of a request (lookup, allow check, quota check, handler,
\* result) changes the policy store or the tool registry, also when the
\* request names an org the store has no policy for.
C36_StoreAndRegistryFrozen == [][store' = store /\ registry' = registry]_vars

\* What the code keeps: the registry, the global policy, the skills and the
\* policies of the orgs already in the store never change; a request can only
\* add the empty policy of an org the store had not seen.
C36_Step ==
    /\ registry' = registry
    /\ store'.global_policy = store.global_policy
    /\ store'.skills = store.skills
    /\ \A o \in DOMAIN store.orgs : o \in DOMAIN store'.orgs /\ store'.orgs[o] = store.orgs[o]
    /\ \A o \in DOMAIN store'.orgs \ DOMAIN store.orgs : store'.orgs[o] = EmptyOrgPolicy

C36_OnlyEmptyPoliciesAdded == [][C36_Step]_vars


\* ------------------------------------------------------------------ C35
\* C35: a state with a positive token budget that is not halted has spent at
\* most its budget, and a step that records tokens and leaves the spent tokens
\* above a positive budget leaves the state halted.
C35_WithinBudget ==
    (state.budget_token > 0 /\ ~state.halted) => state.spent_token <= state.budget_token

C35_Step ==
    (/\ state'.spent_token # state.spent_token
     /\ state'.budget_token > 0
     /\ state'.spent_token > state'.budget_token)
    => state'.halted

C35_SpentWithinBudgetUnlessHalted == []C35_WithinBudget /\ [][C35_Step]_vars

\* A recording went past the positive budget and the state is halted by it
\* alone: the error list names the budget and no halt reason was written.
C35_Witness ==
    /\ state.budget_token > 0
    /\ state.spent_token > state.budget_token
    /\ state.halted
    /\ state.errors = <<"token_budget_exceeded">>
    /\ HaltReason(state) = NoneVal


\* ------------------------------------------------------------------ C37
\* The run was handed a state whose recorded tokens do not exceed a positive
\* budget, as use_tokens leaves every state it has not halted.
StartedWithinBudget == state.budget_token > 0 => state.spent_token <= state.budget_token

\* C37: when a flow run has returned, the state is not both done and halted,
\* and a state the finalize node marked done still carries the finalized
\* output, which has no guard's summary.
C37_DoneExcludesHalted ==
    (flow.pc = "returned" /\ StartedWithinBudget /\ state.done)
    => /\ ~state.halted
       /\ state.output.summary = NoneVal
       /\ flow.out.body = state.output

\* What the code keeps: a run that is done and halted was halted by the token
\* guard right after its finalize node, with the recorded tokens at the budget.
C37_OnlyBudgetGuardHaltsDone ==
    (flow.pc = "returned" /\ StartedWithinBudget /\ state.done /\ state.halted)
    => /\ HaltReason(state) = "token_budget_exceeded"
       /\ state.spent_token = state.budget_token
       /\ state.log[Len(state.log)].kind = "finalize"


\* ------------------------------------------------------------------ C38
\* This step ended the call of slot c with the failure envelope.
CallFailed(c) ==
    /\ pc_tool.calls[c].pc = "attempting"
    /\ pc_tool'.calls[c].result = "failed"

C38_Step ==
    /\ pc_tool'.cb_failures < pc_tool.cb_failures => CallSucceeded
    /\ \A c \in ToolSlots :
         (/\ CallFailed(c)
          /\ pc_tool.calls[c].after_cooldown
          /\ pc_tool.streak >= pc_tool.cb_threshold)
         => /\ pc_tool'.cb_open_until = pc_tool.now + pc_tool.cb_cooldown
            /\ circuit_open(pc_tool')

\* C38: the breaker's failure count goes down only in a step that ends a call
\* with a result, so after as many consecutive failed calls as the threshold
\* the count stays at the threshold however long the clock runs; and when a
\* call made after the cooldown fails with no success in between, that one
\* failure opens the circuit again for a full cooldown from now.
C38_CooldownKeepsFailureCount ==
    /\ [][C38_Step]_vars
    /\ [](pc_tool.streak >= pc_tool.cb_threshold
            => pc_tool.cb_failures >= pc_tool.cb_threshold)

\* With a threshold of two, the probe made after the cooldown failed and the
\* circuit is open again, a full cooldown ahead of the clock.
C38_Witness ==
    /\ pc_tool.cb_threshold = CbThreshold
    /\ \E c \in ToolSlots :
         /\ pc_tool.calls[c].after_cooldown
         /\ pc_tool.calls[c].result = "failed"
    /\ pc_tool.streak = CbThreshold + 1
    /\ pc_tool.cb_open_until = pc_tool.now + pc_tool.cb_cooldown
    /\ circuit_open(pc_tool)


\* ------------------------------------------------------------------ C39
\* The sites of the call in the order compare hands them to gather.
InCall(s) == s \in fusion.sites
ListedOrder == SelectSeq(<<"shopee", "lazada", "tiki">>, InCall)

\* C39: for the responses the providers gave, the offers compare returns are
\* those it returns when the provider calls complete in the listed order of the
\* sites, whatever order they completed in: the same representative per
\* canonical key and the same order among offers that tie.
C39_CompletionOrderIrrelevant ==
    fusion.pc = "returned"
    => fusion.offers =
         Take(SortOffers(_fuse_duplicates(RawOffers(ListedOrder, fusion.results)), TRUE),
              fusion.k)

\* What the code keeps: the canonical keys that were fused do not depend on
\* the order of completion.
C39_SameKeysFused ==
    fusion.pc = "returned"
    => KeysIn(fusion.fused) = KeysIn(_fuse_duplicates(RawOffers(ListedOrder, fusion.results)))


\* ------------------------------------------------------------------ C40
\* This step took run r out of the gate, by whichever exit.
LeftGate(r) ==
    /\ gate.runs[r] \in {"running", "woken"}
    /\ gate'.runs[r] \in {"left", "cancelled"}

\* The exit gave the slot back: it went to the first run of the queue, or to
\* the counter when nobody was queued.
C40_Step ==
    \A r \in GateRuns :
        LeftGate(r) =>
            /\ gate'.exit[r] \in ExitWays \cup {"cancelled"}
            /\ IF gate.waiters # <<>>
               THEN /\ gate'.runs[Head(gate.waiters)] = "woken"
                    /\ gate'.waiters = Tail(gate.waiters)
                    /\ gate'.value = gate.value
               ELSE gate'.value = gate.value + 1

\* C40: every exit of a run from the admission gate (result, timeout, retries
\* used up, other exception, cancellation) gives its slot back, no slot is ever
\* lost, and when every admitted run ends, a run queued for a slot is
\* eventually executing inside the gate unless it is cancelled first.
C40_WaitersAdmitted ==
    /\ [][C40_Step]_vars
    /\ [](gate.pc = "ready" => Cardinality(HoldsSlot) + gate.value = gate.max_concurrent)
    /\ \A r \in GateRuns :
         (gate.pc = "ready" /\ gate.runs[r] = "waiting")
            ~> (gate.runs[r] \in {"running", "cancelled"})

\* A run that had to queue is executing, and the two other runs have left the
\* gate, one by an exception and one by a timeout.
C40_Witness ==
    /\ gate.pc = "ready"
    /\ \E r \in GateRuns : gate.runs[r] = "running" /\ gate.hist[r] = "waited"
    /\ \E r \in GateRuns : gate.runs[r] = "left" /\ gate.exit[r] = "error"
    /\ \E r \in GateRuns : gate.runs[r] = "left" /\ gate.exit[r] = "timeout"

====
